---- MODULE Spec2Model ----
(***************************************************************************)
(* Model of the knowledge extraction, chunking and storage code of the    *)
(* company RAG system: KnowledgeExtractor (pattern matcher) and            *)
(* CompanyRAGEngine (splitContent, addKnowledge, updateKnowledge,          *)
(* removeKnowledge).                                                       *)
(*                                                                         *)
(* A JavaScript string is a sequence of one-character strings.             *)
(***************************************************************************)
EXTENDS Integers, Sequences, FiniteSets, TLC

VARIABLES
    config,        \* KnowledgeExtractor.config: [includePatterns, excludePatterns]
    filePath,      \* argument of the last shouldProcessFile / matchesPattern call
    pattern,       \* argument of the last matchesPattern call
    matched,       \* value returned by the last matchesPattern call
    eligible,      \* value returned by the last shouldProcessFile call
    op,            \* the last operation called: "none", "matchesPattern", "shouldProcessFile"
    content,       \* splitContent: its argument
    lines,         \* splitContent: content.split('\n')
    lineIdx,       \* splitContent: number of lines the for loop has consumed
    currentChunk,  \* splitContent: the accumulator
    chunks,        \* splitContent: the chunks pushed so far
    result,        \* splitContent: the returned array
    cpc,           \* splitContent: "start", "loop", "done", or "off" when not running
    store,         \* the Chroma collection: entry id -> [document, metadata]
    calls,         \* the engine calls in progress, one per handler
    fileInfo,      \* extractKnowledge: the argument of the first call
    knowledgeItem, \* extractKnowledge: the value the first call returned
    analysis,      \* extractKnowledge: the analysis the first call computed
    fileInfo2,     \* extractKnowledge: the argument of a second call
    knowledgeItem2, \* extractKnowledge: the value the second call returned
    epc,           \* extractKnowledge: "ready", "once", "twice", or "off"
    webhookSecret, \* WebhookHandler.webhookSecret
    request,       \* the request handleGitHubWebhook is serving
    response,      \* the status it answered, 0 while there is none
    watcherEvents, \* the events passed to GitHubWatcher.handleWebhookEvent
    wpc,           \* handleGitHubWebhook: "verify", "parse", "dispatch", "done", or "off"
    model,         \* CompanyRAGEngine.model
    modelIdx,      \* initializeModel: number of candidates the loop has left behind
    testOutcomes,  \* what generateContent('test') does for each candidate
    initError,     \* the error initializeModel threw, "" when none
    mpc,           \* initializeModel: "get", "test", "check", "done", or "off"
    repos,         \* GitHubWatcher.repos: the watch list
    job,           \* GitHubWatcher: the entry point being served and its argument
    syncQueue,     \* GitHubWatcher: the repositories syncRepository is still to be called for
    pending,       \* GitHubWatcher: tree items or file changes still to be processed
    engineCalls,   \* the calls the watcher made on the engine, in order
    jobCount,      \* GitHubWatcher: number of entry points served so far
    gpc,           \* GitHubWatcher: "idle", "queue", "tree", "push", or "off"
    system,        \* CompanyRAGApplication.system: null, or the system object
    initDone,      \* number of initialize() calls that have completed
    ipc,           \* initialize: "idle", "engine" (awaiting ragEngine.initialize), or "off"
    spc,           \* startSystem: "idle", "server", "github", "scan", "watch", "webhooks", "running", or "off"
    appLog,        \* the calls made on the application, with their outcomes
    settings,      \* repoConfig: settings.enableRealTimeSync and the local repository
    localFiles,    \* the files of the local repository at startup
    scanQueue,     \* scanRepository: the files getAllFiles returned that are still to be processed
    watchQueue,    \* the files whose 'add' event chokidar has still to deliver
    ingested       \* the calls the LocalFileWatcher made on the engine, in order

vars == << config, filePath, pattern, matched, eligible, op,
           content, lines, lineIdx, currentChunk, chunks, result, cpc,
           store, calls,
           fileInfo, knowledgeItem, analysis, fileInfo2, knowledgeItem2, epc,
           webhookSecret, request, response, watcherEvents, wpc,
           model, modelIdx, testOutcomes, initError, mpc,
           repos, job, syncQueue, pending, engineCalls, jobCount, gpc,
           system, initDone, ipc, spc, appLog, settings, localFiles, scanQueue, watchQueue, ingested >>
matcherVars == << config, filePath, pattern, matched, eligible, op >>
chunkerVars == << content, lines, lineIdx, currentChunk, chunks, result, cpc >>
storeVars == << store, calls >>
extractorVars == << fileInfo, knowledgeItem, analysis, fileInfo2, knowledgeItem2, epc >>
webhookVars == << webhookSecret, request, response, watcherEvents, wpc >>
modelVars == << model, modelIdx, testOutcomes, initError, mpc >>
githubVars == << repos, job, syncQueue, pending, engineCalls, jobCount, gpc >>
appVars == << system, initDone, ipc, spc, appLog, settings, localFiles, scanQueue, watchQueue, ingested >>
integrationVars == << githubVars, appVars >>
restVars == << extractorVars, webhookVars, modelVars, integrationVars >>
notStoreVars == << matcherVars, chunkerVars, restVars >>

----------------------------------------------------------------------------
(* Strings *)

\* null and undefined where a string may stand: neither is a string, a string
\* being a sequence of characters.  NullObject is null where an object may stand.
Null == << "null" >>
Undefined == << "undefined" >>
NullObject == [null |-> TRUE]

\* s.startsWith(p) at offset i (1-based): p occurs in s at position i.
OccursAt(p, s, i) ==
    /\ i + Len(p) - 1 <= Len(s)
    /\ \A k \in 1..Len(p) : s[i + k - 1] = p[k]

\* String.prototype.replace(/from/g, to) for a literal `from`: the
\* non-overlapping occurrences, left to right, each replaced by `to`.
RECURSIVE ReplaceAll(_, _, _)
ReplaceAll(s, from, to) ==
    IF s = << >> THEN << >>
    ELSE IF OccursAt(from, s, 1)
         THEN to \o ReplaceAll(SubSeq(s, Len(from) + 1, Len(s)), from, to)
         ELSE << s[1] >> \o ReplaceAll(Tail(s), from, to)

----------------------------------------------------------------------------
(* Regular expressions, as far as the translated glob patterns use them: *)
(* an atom is `.`, the class `[^/]` or a literal character, optionally    *)
(* followed by `*`.                                                        *)

NotSlashClass == << "[", "^", "/", "]" >>

\* The atom starting at position i of the regex source, and its length.
AtomAt(re, i) ==
    IF OccursAt(NotSlashClass, re, i) THEN [kind |-> "notslash", ch |-> "", len |-> 4]
    ELSE IF re[i] = "." THEN [kind |-> "any", ch |-> "", len |-> 1]
    ELSE [kind |-> "lit", ch |-> re[i], len |-> 1]

\* new RegExp(re): the sequence of [kind, ch, star] items.
RECURSIVE ParseRegExp(_, _)
ParseRegExp(re, i) ==
    IF i > Len(re) THEN << >>
    ELSE LET a == AtomAt(re, i)
             j == i + a.len
             star == j <= Len(re) /\ re[j] = "*"
         IN << [kind |-> a.kind, ch |-> a.ch, star |-> star] >>
            \o ParseRegExp(re, IF star THEN j + 1 ELSE j)

\* `.` matches any character but a line terminator.
AtomMatches(t, c) ==
    CASE t.kind = "any"      -> c \notin {"\n", "\r"}
      [] t.kind = "notslash" -> c # "/"
      [] OTHER               -> c = t.ch

\* Whether items ti.. of toks match a prefix of s starting at si.
RECURSIVE MatchFrom(_, _, _, _)
MatchFrom(toks, ti, s, si) ==
    IF ti > Len(toks) THEN TRUE
    ELSE IF toks[ti].star
         THEN \/ MatchFrom(toks, ti + 1, s, si)
              \/ /\ si <= Len(s)
                 /\ AtomMatches(toks[ti], s[si])
                 /\ MatchFrom(toks, ti, s, si + 1)
         ELSE /\ si <= Len(s)
              /\ AtomMatches(toks[ti], s[si])
              /\ MatchFrom(toks, ti + 1, s, si + 1)

\* RegExp.prototype.test without anchors: a match may start anywhere.
RegExpTest(re, s) ==
    LET toks == ParseRegExp(re, 1)
    IN \E start \in 1..(Len(s) + 1) : MatchFrom(toks, 1, s, start)

----------------------------------------------------------------------------
(* KnowledgeExtractor: pattern matcher *)

\* The three chained replace calls of matchesPattern: each works on the
\* result of the one before.
GlobToRegex(pat) ==
    ReplaceAll(
        ReplaceAll(
            ReplaceAll(pat, << "*", "*" >>, << ".", "*" >>),
            << "*" >>, << "[", "^", "/", "]", "*" >>),
        << "?" >>, << "." >>)

matchesPattern(path, pat) == RegExpTest(GlobToRegex(pat), path)

DefaultIncludePatterns ==
  << <<"*","*","/","*",".","j","s">>,
     <<"*","*","/","*",".","j","s","x">>,
     <<"*","*","/","*",".","t","s">>,
     <<"*","*","/","*",".","t","s","x">>,
     <<"*","*","/","*",".","p","y">>,
     <<"*","*","/","*",".","j","a","v","a">>,
     <<"*","*","/","*",".","g","o">>,
     <<"*","*","/","*",".","r","s">>,
     <<"*","*","/","*",".","c","p","p">>,
     <<"*","*","/","*",".","c">>,
     <<"*","*","/","*",".","h">>,
     <<"*","*","/","*",".","h","p","p">>,
     <<"*","*","/","*",".","p","h","p">>,
     <<"*","*","/","*",".","r","b">>,
     <<"*","*","/","*",".","s","w","i","f","t">>,
     <<"*","*","/","*",".","k","t">>,
     <<"*","*","/","*",".","m","d">>,
     <<"*","*","/","*",".","y","a","m","l">>,
     <<"*","*","/","*",".","y","m","l">>,
     <<"*","*","/","*",".","j","s","o","n">>,
     <<"*","*","/","*",".","s","q","l">>,
     <<"*","*","/","*",".","s","h">>,
     <<"*","*","/","*",".","d","o","c","k","e","r","f","i","l","e">>,
     <<"*","*","/","R","E","A","D","M","E","*">>,
     <<"*","*","/","C","H","A","N","G","E","L","O","G","*">>,
     <<"*","*","/","A","P","I","*">> >>

DefaultExcludePatterns ==
  << <<"*","*","/","n","o","d","e","_","m","o","d","u","l","e","s","/","*","*">>,
     <<"*","*","/","d","i","s","t","/","*","*">>,
     <<"*","*","/","b","u","i","l","d","/","*","*">>,
     <<"*","*","/",".","g","i","t","/","*","*">>,
     <<"*","*","/","c","o","v","e","r","a","g","e","/","*","*">>,
     <<"*","*","/","*",".","m","i","n",".","j","s">>,
     <<"*","*","/","*",".","b","u","n","d","l","e",".","j","s">>,
     <<"*","*","/","v","e","n","d","o","r","/","*","*">>,
     <<"*","*","/","t","h","i","r","d","_","p","a","r","t","y","/","*","*">> >>

DefaultConfig ==
    [includePatterns |-> DefaultIncludePatterns,
     excludePatterns |-> DefaultExcludePatterns]

shouldProcessFile_DefaultAllow(cfg, path) ==
    IF \E i \in 1..Len(cfg.excludePatterns) : matchesPattern(path, cfg.excludePatterns[i])
    THEN FALSE
    ELSE TRUE

\* A variant that consults the include list before the exclude list.
shouldProcessFile_IncludeFirst(cfg, path) ==
    IF \E i \in 1..Len(cfg.includePatterns) : matchesPattern(path, cfg.includePatterns[i])
    THEN TRUE
    ELSE FALSE

shouldProcessFile(cfg, path) ==
    IF \E i \in 1..Len(cfg.excludePatterns) : matchesPattern(path, cfg.excludePatterns[i])
    THEN FALSE
    ELSE IF \E i \in 1..Len(cfg.includePatterns) : matchesPattern(path, cfg.includePatterns[i])
         THEN TRUE
         ELSE FALSE

----------------------------------------------------------------------------
(* CompanyRAGEngine.splitContent *)

maxChunkSize == 1000

\* The characters String.prototype.trim removes that occur in the model.
Whitespace == {" ", "\t", "\n", "\r"}

RECURSIVE FirstNonSpace(_, _)
FirstNonSpace(s, i) ==
    IF i > Len(s) \/ s[i] \notin Whitespace THEN i ELSE FirstNonSpace(s, i + 1)

RECURSIVE LastNonSpace(_, _)
LastNonSpace(s, i) ==
    IF i < 1 \/ s[i] \notin Whitespace THEN i ELSE LastNonSpace(s, i - 1)

\* String.prototype.trim
Trim(s) == SubSeq(s, FirstNonSpace(s, 1), LastNonSpace(s, Len(s)))

\* content.split('\n'): the pieces between the line breaks, in order; a
\* string without line break, the empty one included, gives one piece.
SplitLines(s) ==
    LET breaks == { i \in 1..Len(s) : s[i] = "\n" }
        NextBreak(from) == CHOOSE i \in breaks : i >= from /\ \A j \in breaks : j >= from => i <= j
        RECURSIVE Pieces(_)
        Pieces(from) ==
            IF \E i \in breaks : i >= from
            THEN << SubSeq(s, from, NextBreak(from) - 1) >> \o Pieces(NextBreak(from) + 1)
            ELSE << SubSeq(s, from, Len(s)) >>
    IN Pieces(1)

\* A variant that forgets the line that overflowed: the new accumulator is empty.
SplitStep_DropLine(st, line) ==
    IF Len(st.currentChunk) + Len(line) > maxChunkSize /\ Len(st.currentChunk) > 0
    THEN [chunks |-> Append(st.chunks, Trim(st.currentChunk)),
          currentChunk |-> << >>]
    ELSE [chunks |-> st.chunks,
          currentChunk |-> st.currentChunk
                           \o (IF st.currentChunk # << >> THEN << "\n" >> ELSE << >>)
                           \o line]

\* A variant that appends the line before closing the chunk it overflows.
SplitStep_AppendFirst(st, line) ==
    LET joined == st.currentChunk
                  \o (IF st.currentChunk # << >> THEN << "\n" >> ELSE << >>)
                  \o line
    IN IF Len(st.currentChunk) + Len(line) > maxChunkSize /\ Len(st.currentChunk) > 0
       THEN [chunks |-> Append(st.chunks, Trim(joined)), currentChunk |-> << >>]
       ELSE [chunks |-> st.chunks, currentChunk |-> joined]

\* One iteration of the for loop over the lines: st = [currentChunk, chunks].
SplitStep(st, line) ==
    IF Len(st.currentChunk) + Len(line) > maxChunkSize /\ Len(st.currentChunk) > 0
    THEN [chunks |-> Append(st.chunks, Trim(st.currentChunk)),
          currentChunk |-> line]
    ELSE [chunks |-> st.chunks,
          currentChunk |-> st.currentChunk
                           \o (IF st.currentChunk # << >> THEN << "\n" >> ELSE << >>)
                           \o line]

\* After the loop: the accumulator is pushed unless it trims to nothing.
SplitFlush(st) ==
    IF Trim(st.currentChunk) # << >>
    THEN Append(st.chunks, Trim(st.currentChunk))
    ELSE st.chunks

\* A variant of the return statement without the [content] fallback.
SplitResult_NoFallback(pushed, c) == pushed

\* return chunks.length > 0 ? chunks : [content]
SplitResult(pushed, c) == IF Len(pushed) > 0 THEN pushed ELSE << c >>

RECURSIVE SplitLoop(_, _, _)
SplitLoop(st, ls, i) ==
    IF i > Len(ls) THEN st ELSE SplitLoop(SplitStep(st, ls[i]), ls, i + 1)

splitContent(c) ==
    SplitResult(
        SplitFlush(SplitLoop([chunks |-> << >>, currentChunk |-> << >>], SplitLines(c), 1)),
        c)

----------------------------------------------------------------------------
(* Regular expression literals of the content analyzer, as syntax trees,  *)
(* and the backtracking search that RegExp runs on them.                   *)

LowerCase == << "a","b","c","d","e","f","g","h","i","j","k","l","m",
                "n","o","p","q","r","s","t","u","v","w","x","y","z" >>
UpperCase == << "A","B","C","D","E","F","G","H","I","J","K","L","M",
                "N","O","P","Q","R","S","T","U","V","W","X","Y","Z" >>
DigitChars == << "0","1","2","3","4","5","6","7","8","9" >>
Range(f) == { f[i] : i \in DOMAIN f }

\* \w
WordChars == Range(LowerCase) \cup Range(UpperCase) \cup Range(DigitChars) \cup {"_"}

Chr(c) == [t |-> "chr", c |-> c]
\* `.`
AnyChar == [t |-> "any"]
\* a class: the characters of cs, \s when sp, \w when wd; negated when neg
Cls(neg, cs, sp, wd) == [t |-> "cls", neg |-> neg, cs |-> cs, sp |-> sp, wd |-> wd]
Cat(ns) == [t |-> "cat", ns |-> ns]
Alt(ns) == [t |-> "alt", ns |-> ns]
Star(n) == [t |-> "star", n |-> n, lazy |-> FALSE]
LazyStar(n) == [t |-> "star", n |-> n, lazy |-> TRUE]
Plus(n) == Cat(<< n, Star(n) >>)
Opt(n) == Alt(<< n, Cat(<< >>) >>)
Cap(k, n) == [t |-> "cap", k |-> k, n |-> n]
Lit(s) == Cat([i \in 1..Len(s) |-> Chr(s[i])])

Space == Cls(FALSE, {}, TRUE, FALSE)
NonSpace == Cls(TRUE, {}, TRUE, FALSE)
Word == Cls(FALSE, {}, FALSE, TRUE)

ClsMatches(n, c) ==
    n.neg # (\/ c \in n.cs
             \/ (n.sp /\ c \in Whitespace)
             \/ (n.wd /\ c \in WordChars))

NoMatch == [ok |-> FALSE, start |-> 0, end |-> 0, caps |-> << >>]

\* Whether the one-character node n (chr, any or cls) matches character c.
CharMatches(n, c) ==
    CASE n.t = "chr" -> c = n.c
      [] n.t = "any" -> c \notin {"\n", "\r"}
      [] n.t = "cls" -> ClsMatches(n, c)

Least(S) == CHOOSE x \in S : \A y \in S : x <= y
Greatest(S) == CHOOSE x \in S : \A y \in S : y <= x
LeastOr(S, d) == IF S = {} THEN d ELSE Least(S)

\* The number of characters from position i of s on that n matches in a row.
RunLength(n, s, i) ==
    LeastOr({ j \in i..Len(s) : ~CharMatches(n, s[j]) }, Len(s) + 1) - i

\* The first way, in backtracking order, to match the nodes of todo one after
\* the other from position i of s; end is the position after the match.  The
\* node under a star is a one-character node in every expression of the
\* analyzer: of the repetition counts after which the rest matches, the star
\* takes the greatest, or the least when lazy.
RECURSIVE Run(_, _, _, _)
Run(todo, s, i, caps) ==
    IF todo = << >> THEN [ok |-> TRUE, start |-> 0, end |-> i, caps |-> caps]
    ELSE LET n == Head(todo)
             rest == Tail(todo)
         IN CASE n.t \in {"chr", "any", "cls"} ->
                    IF i <= Len(s) /\ CharMatches(n, s[i])
                    THEN Run(rest, s, i + 1, caps) ELSE NoMatch
              [] n.t = "cat" -> Run(n.ns \o rest, s, i, caps)
              [] n.t = "alt" ->
                    IF n.ns = << >> THEN NoMatch
                    ELSE LET first == Run(<< Head(n.ns) >> \o rest, s, i, caps)
                         IN IF first.ok THEN first
                            ELSE Run(<< Alt(Tail(n.ns)) >> \o rest, s, i, caps)
              [] n.t = "star" ->
                    LET counts == { k \in 0..RunLength(n.n, s, i) :
                                      Run(rest, s, i + k, caps).ok }
                    IN IF counts = {} THEN NoMatch
                       ELSE Run(rest, s,
                                i + (IF n.lazy THEN Least(counts) ELSE Greatest(counts)),
                                caps)
              [] n.t = "cap" ->
                    Run(<< n.n, [t |-> "endcap", k |-> n.k, from |-> i] >> \o rest, s, i, caps)
              [] n.t = "endcap" ->
                    Run(rest, s, i, [caps EXCEPT ![n.k] = SubSeq(s, n.from, i - 1)])

\* A regular expression: its tree and its number of capture groups.
RegExp(node, groups) == [node |-> node, groups |-> groups]

\* The capture groups before a match: all undefined.
NoCaptures(re) == [k \in 1..re.groups |-> Undefined]

\* The match of re in s that starts at the least position of starts.
ExecAt(re, s, starts) ==
    IF starts = {} THEN NoMatch
    ELSE [Run(<< re.node >>, s, Least(starts), NoCaptures(re)) EXCEPT !.start = Least(starts)]

\* RegExp.prototype.exec from position `from`: the leftmost match.
Exec(re, s, from) ==
    ExecAt(re, s, { i \in from..(Len(s) + 1) : Run(<< re.node >>, s, i, NoCaptures(re)).ok })

\* String.prototype.matchAll / match with a global expression: the successive
\* matches, each search starting where the match before ended.
RECURSIVE MatchesAfter(_, _, _)
MatchesAfter(re, s, m) ==
    IF ~m.ok THEN << >>
    ELSE << m >> \o MatchesAfter(re, s, Exec(re, s, IF m.end = m.start THEN m.end + 1 ELSE m.end))

MatchAll(re, s, from) == MatchesAfter(re, s, Exec(re, s, from))

\* String.prototype.replace(re, to) with a global expression.
RECURSIVE ReplacedAfter(_, _, _, _, _)
ReplacedAfter(re, s, to, from, m) ==
    IF ~m.ok THEN SubSeq(s, from, Len(s))
    ELSE SubSeq(s, from, m.start - 1) \o to \o ReplacedAfter(re, s, to, m.end, Exec(re, s, m.end))

ReplaceRegExp(re, s, to, from) == ReplacedAfter(re, s, to, from, Exec(re, s, from))

----------------------------------------------------------------------------
(* KnowledgeExtractor: content analyzer *)

\* s.split(c) for a one-character separator c: the pieces between the
\* occurrences of c, in order.
RECURSIVE SplitOn(_, _)
SplitOn(s, c) ==
    IF \A i \in 1..Len(s) : s[i] # c THEN << s >>
    ELSE << SubSeq(s, 1, Least({ i \in 1..Len(s) : s[i] = c }) - 1) >>
         \o SplitOn(SubSeq(s, Least({ i \in 1..Len(s) : s[i] = c }) + 1, Len(s)), c)

\* s.endsWith(p)
EndsWith(s, p) == Len(p) <= Len(s) /\ OccursAt(p, s, Len(s) - Len(p) + 1)

\* A string or undefined, as a condition
Truthy(v) == v # Undefined /\ v # Null /\ v # << >>

\* a || b on strings
OrElse(a, b) == IF Truthy(a) THEN a ELSE b

\* Group k of each match
Captures(ms, k) == [i \in 1..Len(ms) |-> ms[i].caps[k]]

\* match[j] || match[k] of each match
EitherCapture(ms, j, k) == [i \in 1..Len(ms) |-> OrElse(ms[i].caps[j], ms[i].caps[k])]

\* match[1] || match[2] || match[3] of each match
FirstCapture(ms) ==
    [i \in 1..Len(ms) |-> OrElse(OrElse(ms[i].caps[1], ms[i].caps[2]), ms[i].caps[3])]

\* [...new Set(xs)]: the first occurrence of each element, in order
RECURSIVE Dedup(_)
Dedup(xs) ==
    IF xs = << >> THEN << >>
    ELSE LET front == Dedup(SubSeq(xs, 1, Len(xs) - 1))
             last == xs[Len(xs)]
         IN IF \E i \in 1..Len(front) : front[i] = last THEN front ELSE Append(front, last)

\* The quote characters of the import expression; the back quote, its third
\* member, does not occur in the contents of the model.
Quote == Cls(FALSE, {"'", "\""}, FALSE, FALSE)
NotQuote == Cls(TRUE, {"'", "\""}, FALSE, FALSE)
NotCloseParen == Cls(TRUE, {")"}, FALSE, FALSE)
WordOrDot == Cls(FALSE, {"."}, FALSE, TRUE)
\* [\s\S]
AnyAtAll == Cls(TRUE, {}, FALSE, FALSE)

\* /import.*?from\s+[Q]([^Q]+)[Q]/g, with Q the three quote characters
ImportFromRegExp ==
    RegExp(Cat(<< Lit(<< "i","m","p","o","r","t" >>), LazyStar(AnyChar), Lit(<< "f","r","o","m" >>), Plus(Space),
                  Quote, Cap(1, Plus(NotQuote)), Quote >>), 1)

\* /(?:from\s+(\S+)\s+import|import\s+(\S+))/g
PythonImportRegExp ==
    RegExp(Alt(<< Cat(<< Lit(<< "f","r","o","m" >>), Plus(Space), Cap(1, Plus(NonSpace)),
                         Plus(Space), Lit(<< "i","m","p","o","r","t" >>) >>),
                  Cat(<< Lit(<< "i","m","p","o","r","t" >>), Plus(Space), Cap(2, Plus(NonSpace)) >>) >>), 2)

\* /import\s+([\w.]+);/g
JavaImportRegExp ==
    RegExp(Cat(<< Lit(<< "i","m","p","o","r","t" >>), Plus(Space), Cap(1, Plus(WordOrDot)), Chr(";") >>), 1)

\* importMatches, pythonImports and javaImports, one after the other.
extractDependencies(c) ==
    Dedup(Captures(MatchAll(ImportFromRegExp, c, 1), 1)
          \o EitherCapture(MatchAll(PythonImportRegExp, c, 1), 1, 2)
          \o Captures(MatchAll(JavaImportRegExp, c, 1), 1))

extractImports(c) == extractDependencies(c)

\* /export\s+(?:default\s+)?(?:function\s+|class\s+|const\s+|let\s+|var\s+)?(\w+)/g
ExportRegExp ==
    RegExp(Cat(<< Lit(<< "e","x","p","o","r","t" >>), Plus(Space),
                  Opt(Cat(<< Lit(<< "d","e","f","a","u","l","t" >>), Plus(Space) >>)),
                  Opt(Alt(<< Cat(<< Lit(<< "f","u","n","c","t","i","o","n" >>), Plus(Space) >>),
                             Cat(<< Lit(<< "c","l","a","s","s" >>), Plus(Space) >>),
                             Cat(<< Lit(<< "c","o","n","s","t" >>), Plus(Space) >>),
                             Cat(<< Lit(<< "l","e","t" >>), Plus(Space) >>),
                             Cat(<< Lit(<< "v","a","r" >>), Plus(Space) >>) >>)),
                  Cap(1, Plus(Word)) >>), 1)

extractExports(c) == Captures(MatchAll(ExportRegExp, c, 1), 1)

\* (?:async\s+)?
OptAsync == Opt(Cat(<< Lit(<< "a","s","y","n","c" >>), Plus(Space) >>))

\* \([^)]*\)
ParamList == Cat(<< Chr("("), Star(NotCloseParen), Chr(")") >>)

\* /(?:function\s+(\w+)|(\w+)\s*=\s*(?:async\s+)?(?:\([^)]*\)|\w+)\s*=>|(\w+):\s*(?:async\s+)?\([^)]*\)\s*=>)/g
JsFunctionRegExp ==
    RegExp(Alt(<< Cat(<< Lit(<< "f","u","n","c","t","i","o","n" >>), Plus(Space), Cap(1, Plus(Word)) >>),
                  Cat(<< Cap(2, Plus(Word)), Star(Space), Chr("="), Star(Space), OptAsync,
                         Alt(<< ParamList, Plus(Word) >>), Star(Space), Lit(<< "=",">" >>) >>),
                  Cat(<< Cap(3, Plus(Word)), Chr(":"), Star(Space), OptAsync,
                         ParamList, Star(Space), Lit(<< "=",">" >>) >>) >>), 3)

\* /def\s+(\w+)\s*\(/g
PyFunctionRegExp ==
    RegExp(Cat(<< Lit(<< "d","e","f" >>), Plus(Space), Cap(1, Plus(Word)), Star(Space), Chr("(") >>), 1)

\* jsFunctions, each pushed when its funcName is truthy, then pyFunctions.
extractFunctions(c) ==
    SelectSeq(FirstCapture(MatchAll(JsFunctionRegExp, c, 1)), Truthy)
    \o Captures(MatchAll(PyFunctionRegExp, c, 1), 1)

\* /class\s+(\w+)/g
ClassRegExp == RegExp(Cat(<< Lit(<< "c","l","a","s","s" >>), Plus(Space), Cap(1, Plus(Word)) >>), 1)

\* A variant with one scan for the class names.
extractClasses_OneScan(c) == Captures(MatchAll(ClassRegExp, c, 1), 1)

\* jsClasses, then pyClasses.
extractClasses(c) ==
    Captures(MatchAll(ClassRegExp, c, 1), 1) \o Captures(MatchAll(ClassRegExp, c, 1), 1)

\* xs.join(sep)
RECURSIVE Join(_, _)
Join(xs, sep) ==
    IF xs = << >> THEN << >>
    ELSE IF Len(xs) = 1 THEN xs[1]
    ELSE xs[1] \o sep \o Join(Tail(xs), sep)

\* s.substring(0, n) and xs.slice(0, n)
Take(s, n) == SubSeq(s, 1, IF Len(s) < n THEN Len(s) ELSE n)

\* s.includes(sub)
Includes(s, sub) == \E i \in 1..(Len(s) + 1) : OccursAt(sub, s, i)

\* /\/\*\*?([\s\S]*?)\*\//
BlockCommentRegExp ==
    RegExp(Cat(<< Chr("/"), Chr("*"), Opt(Chr("*")), Cap(1, LazyStar(AnyAtAll)),
                  Chr("*"), Chr("/") >>), 1)

\* /\n\s*\*/g
ContinuationRegExp == RegExp(Cat(<< Chr("\n"), Star(Space), Chr("*") >>), 0)

\* The loop of extractFirstComment over the lines, from line i on.
RECURSIVE CommentLines(_, _)
CommentLines(ls, i) ==
    IF i > Len(ls) THEN << >>
    ELSE LET trimmed == Trim(ls[i])
         IN IF OccursAt(<< "/","/" >>, trimmed, 1)
            THEN << Trim(SubSeq(trimmed, 3, Len(trimmed))) >> \o CommentLines(ls, i + 1)
            ELSE IF OccursAt(<< "#" >>, trimmed, 1)
            THEN << Trim(SubSeq(trimmed, 2, Len(trimmed))) >> \o CommentLines(ls, i + 1)
            ELSE IF Len(trimmed) > 0 THEN << >>
            ELSE CommentLines(ls, i + 1)

\* The result of extractFirstComment, given its multilineMatch and the
\* commentLines of its loop.
FirstCommentOf(multilineMatch, commentLines) ==
    IF multilineMatch.ok
    THEN Trim(ReplaceRegExp(ContinuationRegExp, multilineMatch.caps[1], << "\n" >>, 1))
    ELSE IF Len(commentLines) > 0 THEN Join(commentLines, << " " >>) ELSE Null

extractFirstComment(c) ==
    FirstCommentOf(Exec(BlockCommentRegExp, c, 1), CommentLines(SplitLines(c), 1))

NonBlank(line) == Len(Trim(line)) > 0

\* The result of generateSummary, given its firstComment and nonEmptyLines.
SummaryOf(firstComment, nonEmptyLines) ==
    IF Truthy(firstComment) THEN firstComment
    ELSE Take(Join(Take(nonEmptyLines, 3), << " " >>), 200)

generateSummary(c) == SummaryOf(extractFirstComment(c), SelectSeq(SplitLines(c), NonBlank))

\* /if\s*\(/g and its like for a keyword
KeywordParenRegExp(kw) == RegExp(Cat(<< Lit(kw), Star(Space), Chr("(") >>), 0)

\* /&&|\|\|/g
LogicalRegExp == RegExp(Alt(<< Lit(<< "&","&" >>), Lit(<< "|","|" >>) >>), 0)

\* (content.match(re) || []).length
Count(re, c) == Len(MatchAll(re, c, 1))

\* The expressions calculateComplexity counts the matches of.
ComplexityRegExps ==
    << KeywordParenRegExp(<< "i","f" >>),
       KeywordParenRegExp(<< "f","o","r" >>),
       KeywordParenRegExp(<< "w","h","i","l","e" >>),
       KeywordParenRegExp(<< "s","w","i","t","c","h" >>),
       KeywordParenRegExp(<< "c","a","t","c","h" >>),
       LogicalRegExp >>

\* complexity += ... for the expressions from the k-th on.
RECURSIVE CountFrom(_, _)
CountFrom(k, c) ==
    IF k > Len(ComplexityRegExps) THEN 0
    ELSE Count(ComplexityRegExps[k], c) + CountFrom(k + 1, c)

calculateComplexity(c) == CountFrom(1, c)

\* The lower case letter of each upper case letter
LowerOf == [c \in Range(UpperCase) |-> LowerCase[CHOOSE k \in 1..26 : UpperCase[k] = c]]

\* String.prototype.toLowerCase on the letters A-Z
ToLower(s) == [i \in 1..Len(s) |-> IF s[i] \in DOMAIN LowerOf THEN LowerOf[s[i]] ELSE s[i]]

\* The table of detectFramework, in its order.
Frameworks ==
    << [name |-> << "R","e","a","c","t" >>,
        patterns |-> << << "i","m","p","o","r","t",".","*","r","e","a","c","t" >>, << "f","r","o","m",".","*","r","e","a","c","t" >>, << "u","s","e","S","t","a","t","e" >>, << "u","s","e","E","f","f","e","c","t" >> >>],
       [name |-> << "V","u","e" >>,
        patterns |-> << << "i","m","p","o","r","t",".","*","v","u","e" >>, << "f","r","o","m",".","*","v","u","e" >>, << "c","r","e","a","t","e","A","p","p" >>, << "d","e","f","i","n","e","C","o","m","p","o","n","e","n","t" >> >>],
       [name |-> << "A","n","g","u","l","a","r" >>,
        patterns |-> << << "@","a","n","g","u","l","a","r" >>, << "@","C","o","m","p","o","n","e","n","t" >>, << "@","I","n","j","e","c","t","a","b","l","e" >> >>],
       [name |-> << "E","x","p","r","e","s","s" >>,
        patterns |-> << << "e","x","p","r","e","s","s" >>, << "a","p","p",".","g","e","t" >>, << "a","p","p",".","p","o","s","t" >>, << "r","o","u","t","e","r" >> >>],
       [name |-> << "N","e","x","t",".","j","s" >>,
        patterns |-> << << "n","e","x","t","/" >>, << "g","e","t","S","e","r","v","e","r","S","i","d","e","P","r","o","p","s" >>, << "g","e","t","S","t","a","t","i","c","P","r","o","p","s" >> >>],
       [name |-> << "D","j","a","n","g","o" >>,
        patterns |-> << << "d","j","a","n","g","o" >>, << "m","o","d","e","l","s",".","M","o","d","e","l" >>, << "v","i","e","w","s","." >> >>],
       [name |-> << "F","l","a","s","k" >>,
        patterns |-> << << "f","l","a","s","k" >>, << "a","p","p",".","r","o","u","t","e" >>, << "@","a","p","p",".","r","o","u","t","e" >> >>],
       [name |-> << "S","p","r","i","n","g" >>,
        patterns |-> << << "@","S","p","r","i","n","g","B","o","o","t","A","p","p","l","i","c","a","t","i","o","n" >>, << "@","R","e","s","t","C","o","n","t","r","o","l","l","e","r" >>, << "@","S","e","r","v","i","c","e" >> >>] >>

\* A variant that goes on after a match and returns the last framework found.
RECURSIVE DetectLoop_LastWins(_, _, _)
DetectLoop_LastWins(lc, f, p) ==
    IF f > Len(Frameworks) THEN Undefined
    ELSE IF p > Len(Frameworks[f].patterns) THEN DetectLoop_LastWins(lc, f + 1, 1)
    ELSE LET later == DetectLoop_LastWins(lc, f, p + 1)
         IN IF later # Undefined THEN later
            ELSE IF RegExpTest(ToLower(Frameworks[f].patterns[p]), lc)
                 THEN Frameworks[f].name
                 ELSE Undefined

\* The nested loops of detectFramework from framework f, pattern p on.
\* new RegExp(pattern, 'i').test(content): the patterns have no escapes, so
\* with the flag 'i' a pattern matches the content exactly when the pattern
\* in lower case matches lc, the content in lower case.
RECURSIVE DetectLoop(_, _, _)
DetectLoop(lc, f, p) ==
    IF f > Len(Frameworks) THEN Undefined
    ELSE IF p > Len(Frameworks[f].patterns) THEN DetectLoop(lc, f + 1, 1)
    ELSE IF RegExpTest(ToLower(Frameworks[f].patterns[p]), lc) THEN Frameworks[f].name
    ELSE DetectLoop(lc, f, p + 1)

detectFramework(c) == DetectLoop(ToLower(c), 1, 1)

\* path.basename: the part after the last '/', trailing '/' left out
RECURSIVE Basename(_)
Basename(p) ==
    IF p # << >> /\ p[Len(p)] = "/" THEN Basename(SubSeq(p, 1, Len(p) - 1))
    ELSE LET slashes == { i \in 1..Len(p) : p[i] = "/" }
         IN IF slashes = {} THEN p
            ELSE SubSeq(p, (CHOOSE i \in slashes : \A j \in slashes : j <= i) + 1, Len(p))

\* path.extname: from the last '.' of the basename on; empty when there is
\* none or when the basename starts with its only '.'
Extname(p) ==
    LET base == Basename(p)
        dots == { i \in 1..Len(base) : base[i] = "." }
        last == CHOOSE i \in dots : \A j \in dots : j <= i
    IN IF dots = {} \/ last = 1 THEN << >> ELSE SubSeq(base, last, Len(base))

\* typeMap of getFileType
TypeMap ==
    << << << ".","j","s" >>, << "j","a","v","a","s","c","r","i","p","t" >> >>, << << ".","j","s","x" >>, << "j","a","v","a","s","c","r","i","p","t" >> >>,
       << << ".","t","s" >>, << "t","y","p","e","s","c","r","i","p","t" >> >>, << << ".","t","s","x" >>, << "t","y","p","e","s","c","r","i","p","t" >> >>,
       << << ".","p","y" >>, << "p","y","t","h","o","n" >> >>, << << ".","j","a","v","a" >>, << "j","a","v","a" >> >>, << << ".","g","o" >>, << "g","o" >> >>,
       << << ".","r","s" >>, << "r","u","s","t" >> >>, << << ".","c","p","p" >>, << "c","p","p" >> >>, << << ".","c" >>, << "c" >> >>,
       << << ".","p","h","p" >>, << "p","h","p" >> >>, << << ".","r","b" >>, << "r","u","b","y" >> >>, << << ".","s","w","i","f","t" >>, << "s","w","i","f","t" >> >>,
       << << ".","k","t" >>, << "k","o","t","l","i","n" >> >>, << << ".","m","d" >>, << "m","a","r","k","d","o","w","n" >> >>, << << ".","y","a","m","l" >>, << "y","a","m","l" >> >>,
       << << ".","y","m","l" >>, << "y","a","m","l" >> >>, << << ".","j","s","o","n" >>, << "j","s","o","n" >> >>, << << ".","s","q","l" >>, << "s","q","l" >> >>,
       << << ".","s","h" >>, << "s","h","e","l","l" >> >> >>

getFileType(path) ==
    LET ext == ToLower(Extname(path))
    IN IF \E k \in 1..Len(TypeMap) : TypeMap[k][1] = ext
       THEN (CHOOSE e \in Range(TypeMap) : e[1] = ext)[2]
       ELSE << "u","n","k","n","o","w","n" >>

getLanguage(fileType) == fileType

\* s.replace(/[^a-zA-Z0-9]/g, '_')
Sanitize(s) ==
    [i \in 1..Len(s) |->
        IF s[i] \in Range(LowerCase) \cup Range(UpperCase) \cup Range(DigitChars)
        THEN s[i] ELSE "_"]

generateId(repository, path) == Sanitize(repository) \o << "_" >> \o Sanitize(path)

\* The analysis with its main function and main class determined.
WithMain(language, framework, dependencies, imports, exports, functions, classes, summary, complexity) ==
    [language |-> language,
     framework |-> framework,
     dependencies |-> dependencies,
     imports |-> imports,
     exports |-> exports,
     functions |-> functions,
     classes |-> classes,
     mainFunction |-> IF Len(functions) > 0 THEN functions[1] ELSE Null,
     mainClass |-> IF Len(classes) > 0 THEN classes[1] ELSE Null,
     summary |-> summary,
     complexity |-> complexity]

analyzeContent(c, fileType) ==
    WithMain(getLanguage(fileType), detectFramework(c), extractDependencies(c),
             extractImports(c), extractExports(c), extractFunctions(c),
             extractClasses(c), generateSummary(c), calculateComplexity(c))

\* A variant that prefers the class to the function.
generateTitle_ClassFirst(path, a) ==
    LET fileName == Basename(path)
    IN IF Truthy(a.mainClass) THEN fileName \o << " ","-"," " >> \o a.mainClass
       ELSE IF Truthy(a.mainFunction) THEN fileName \o << " ","-"," " >> \o a.mainFunction
       ELSE IF Len(a.exports) > 0
            THEN fileName \o << " ","-"," " >> \o Join(Take(a.exports, 2), << ","," " >>)
       ELSE fileName

generateTitle(path, a) ==
    LET fileName == Basename(path)
    IN IF Truthy(a.mainFunction) THEN fileName \o << " ","-"," " >> \o a.mainFunction
       ELSE IF Truthy(a.mainClass) THEN fileName \o << " ","-"," " >> \o a.mainClass
       ELSE IF Len(a.exports) > 0
            THEN fileName \o << " ","-"," " >> \o Join(Take(a.exports, 2), << ","," " >>)
       ELSE fileName

\* if (cond) tags.push(tag)
PushIf(cond, tag) == IF cond THEN << tag >> ELSE << >>

\* The forEach over the dependencies of generateTags, from dependency i on.
RECURSIVE DependencyTags(_, _)
DependencyTags(deps, i) ==
    IF i > Len(deps) THEN << >>
    ELSE PushIf(Includes(deps[i], << "r","e","a","c","t" >>), << "r","e","a","c","t" >>)
         \o PushIf(Includes(deps[i], << "e","x","p","r","e","s","s" >>), << "e","x","p","r","e","s","s" >>)
         \o PushIf(Includes(deps[i], << "t","y","p","e","s","c","r","i","p","t" >>), << "t","y","p","e","s","c","r","i","p","t" >>)
         \o DependencyTags(deps, i + 1)

\* The tags in the order generateTags pushes them.
PushedTags(path, a) ==
    PushIf(Includes(path, << "t","e","s","t" >>), << "t","e","s","t" >>)
    \o PushIf(Includes(path, << "a","p","i" >>), << "a","p","i" >>)
    \o PushIf(Includes(path, << "c","o","m","p","o","n","e","n","t" >>), << "c","o","m","p","o","n","e","n","t" >>)
    \o PushIf(Includes(path, << "u","t","i","l" >>), << "u","t","i","l","i","t","y" >>)
    \o PushIf(Includes(path, << "c","o","n","f","i","g" >>), << "c","o","n","f","i","g","u","r","a","t","i","o","n" >>)
    \o PushIf(Includes(path, << "s","e","r","v","i","c","e" >>), << "s","e","r","v","i","c","e" >>)
    \o PushIf(Includes(path, << "m","o","d","e","l" >>), << "m","o","d","e","l" >>)
    \o PushIf(Includes(path, << "c","o","n","t","r","o","l","l","e","r" >>), << "c","o","n","t","r","o","l","l","e","r" >>)
    \o PushIf(Truthy(a.language), a.language)
    \o PushIf(Truthy(a.framework), a.framework)
    \o PushIf(Len(a.functions) > 0, << "f","u","n","c","t","i","o","n","s" >>)
    \o PushIf(Len(a.classes) > 0, << "c","l","a","s","s","e","s" >>)
    \o PushIf(a.complexity > 10, << "c","o","m","p","l","e","x" >>)
    \o PushIf(a.complexity <= 3, << "s","i","m","p","l","e" >>)
    \o DependencyTags(a.dependencies, 1)

\* A variant that returns the tags as pushed.
generateTags_NoDedup(path, a) == PushedTags(path, a)

generateTags(path, a) == Dedup(PushedTags(path, a))

\* String(n) for a natural number
RECURSIVE NumberToString(_)
NumberToString(n) ==
    IF n < 10 THEN << DigitChars[n + 1] >>
    ELSE NumberToString(n \div 10) \o << DigitChars[(n % 10) + 1] >>

DependencyLines(deps) == [i \in 1..Len(deps) |-> << "-"," " >> \o deps[i]]

prepareContent(c, a, path) ==
    Trim(<< "\n","F","i","l","e",":"," " >> \o path
         \o << "\n","L","a","n","g","u","a","g","e",":"," " >> \o a.language
         \o << "\n","F","r","a","m","e","w","o","r","k",":"," " >> \o OrElse(a.framework, << "N","o","n","e" >>)
         \o << "\n","\n","S","u","m","m","a","r","y",":"," " >> \o a.summary
         \o << "\n","\n","D","e","p","e","n","d","e","n","c","i","e","s",":","\n" >> \o Join(DependencyLines(a.dependencies), << "\n" >>)
         \o << "\n","\n","F","u","n","c","t","i","o","n","s",":"," " >> \o Join(a.functions, << ","," " >>)
         \o << "\n","C","l","a","s","s","e","s",":"," " >> \o Join(a.classes, << ","," " >>)
         \o << "\n","C","o","m","p","l","e","x","i","t","y",":"," " >> \o NumberToString(a.complexity)
         \o << "\n","\n","C","o","n","t","e","n","t",":","\n" >> \o c
         \o << "\n"," "," "," "," " >>)

\* createHash('md5').update(content).digest('hex'), taken as injective: the
\* digest stands for the content it was computed from.
Md5(c) == << "md5" >> \o c

\* The item extractKnowledge builds from a file and its analysis.
KnowledgeItemOf(fi, fileType, a) ==
    [id |-> generateId(fi.repository, fi.filePath),
     title |-> generateTitle(fi.filePath, a),
     content |-> prepareContent(fi.content, a, fi.filePath),
     metadata |->
        [repository |-> fi.repository,
         filePath |-> fi.filePath,
         fileType |-> fileType,
         lastModified |-> fi.lastModified,
         contentHash |-> Md5(fi.content),
         tags |-> generateTags(fi.filePath, a),
         language |-> a.language,
         framework |-> a.framework,
         dependencies |-> a.dependencies]]

\* A variant that makes the id from the time of the last change as well.
extractKnowledge_TimedId(cfg, fi) ==
    IF ~shouldProcessFile(cfg, fi.filePath) THEN NullObject
    ELSE LET fileType == getFileType(fi.filePath)
             it == KnowledgeItemOf(fi, fileType, analyzeContent(fi.content, fileType))
         IN [it EXCEPT !.id = it.id \o << "_" >> \o NumberToString(fi.lastModified)]

\* A variant that gives up on a file without content.
extractKnowledge_NullOnEmpty(cfg, fi) ==
    IF ~shouldProcessFile(cfg, fi.filePath) \/ fi.content = << >> THEN NullObject
    ELSE LET fileType == getFileType(fi.filePath)
         IN KnowledgeItemOf(fi, fileType, analyzeContent(fi.content, fileType))

extractKnowledge(cfg, fi) ==
    IF ~shouldProcessFile(cfg, fi.filePath) THEN NullObject
    ELSE KnowledgeItemOf(fi, getFileType(fi.filePath),
                         analyzeContent(fi.content, getFileType(fi.filePath)))

----------------------------------------------------------------------------
(* Inputs of the pattern matcher *)

\* All strings over the alphabet A of length at most n.
StringsUpTo(A, n) == UNION { [1..k -> A] : k \in 0..n }

MaxPatLen == 3
MaxPathLen == 4
PatternAlphabet == {"a", "/", "*", "?"}
PathAlphabet == {"a", "b", "/"}
GlobPatterns == StringsUpTo(PatternAlphabet, MaxPatLen)
GlobPaths == StringsUpTo(PathAlphabet, MaxPathLen)

MaxDepth == 2
MaxPatterns == 1
Dirs == { <<"n","o","d","e","_","m","o","d","u","l","e","s">>,
          <<"f","o","o">>,
          <<"d","i","s","t">> }
FileNames == { <<"b","a","r",".","j","s">>,
               <<"x",".","m","i","n",".","j","s">>,
               <<"R","E","A","D","M","E">>,
               <<"n","o","t","e","s",".","t","x","t">>,
               <<"i","n","d","e","x",".","t","s">> }

RECURSIVE JoinDirs(_)
JoinDirs(ds) == IF ds = << >> THEN << >> ELSE Head(ds) \o << "/" >> \o JoinDirs(Tail(ds))

RepoPaths == { JoinDirs(ds) \o f : ds \in StringsUpTo(Dirs, MaxDepth), f \in FileNames }

CfgPatterns == { <<"*",".","j","s">>,
                 <<"f","o","o","/","*","*">>,
                 <<"R","E","A","D","M","E">> }
PatternLists == StringsUpTo(CfgPatterns, MaxPatterns)
Configs ==
    { DefaultConfig } \cup
    { [includePatterns |-> inc, excludePatterns |-> exc] :
        inc \in PatternLists, exc \in PatternLists }

----------------------------------------------------------------------------
(* CompanyRAGEngine: addKnowledge, updateKnowledge, removeKnowledge *)

\* nResults of the query in removeKnowledge
nResults == 1000

\* `${item.id}_chunk_${i}`
ChunkId(id, i) == << id, "_chunk_", i >>

\* The entry addKnowledge builds for chunk i (0-based) of item; the other
\* metadata fields are copies of item.metadata and item.title.
ChunkEntry(item, cs, i) ==
    [document |-> cs[i + 1],
     originalId |-> item.id,
     chunkIndex |-> i,
     totalChunks |-> Len(cs)]

\* collection.add of one record: a record whose id the collection already
\* holds is left as it is (Chroma ignores the add of an existing id).
CollectionAdd(st, key, entry) ==
    IF key \in DOMAIN st THEN st
    ELSE [k \in DOMAIN st \cup {key} |-> IF k = key THEN entry ELSE st[k]]

\* collection.query({nResults, where: {originalId: id}}): the ids of at most
\* nResults of the matching records; QueryResults is the set of possible answers.
QueryResults(st, id) ==
    LET hits == { k \in DOMAIN st : st[k].originalId = id }
    IN IF Cardinality(hits) <= nResults THEN { hits }
       ELSE { some \in SUBSET hits : Cardinality(some) = nResults }

\* collection.delete({ids})
CollectionDelete(st, ids) == [k \in DOMAIN st \ ids |-> st[k]]

NoItem == [id |-> "", content |-> << >>]
IdleCall == [op |-> "none", item |-> NoItem, pc |-> "idle", chunks |-> << >>, i |-> 0, results |-> {}]

Finished(c) == c.pc \in {"idle", "done", "failed"}

\* The parts of the state a specification does not exercise.
ChunkerOff ==
    /\ content = << >>
    /\ lines = << >>
    /\ lineIdx = 0
    /\ currentChunk = << >>
    /\ chunks = << >>
    /\ result = << >>
    /\ cpc = "off"

StoreOff ==
    /\ store = << >>
    /\ calls = << >>

MatcherOff ==
    /\ config = DefaultConfig
    /\ filePath = << >>
    /\ pattern = << >>
    /\ matched = FALSE
    /\ eligible = FALSE
    /\ op = "off"

ExtractorOff ==
    /\ fileInfo = NullObject
    /\ knowledgeItem = NullObject
    /\ analysis = NullObject
    /\ fileInfo2 = NullObject
    /\ knowledgeItem2 = NullObject
    /\ epc = "off"

WebhookOff ==
    /\ webhookSecret = << >>
    /\ request = NullObject
    /\ response = 0
    /\ watcherEvents = << >>
    /\ wpc = "off"

ModelOff ==
    /\ model = Undefined
    /\ modelIdx = 0
    /\ testOutcomes = << >>
    /\ initError = ""
    /\ mpc = "off"

GitHubOff ==
    /\ repos = << >>
    /\ job = NullObject
    /\ syncQueue = << >>
    /\ pending = << >>
    /\ engineCalls = << >>
    /\ jobCount = 0
    /\ gpc = "off"

AppOff ==
    /\ system = NullObject
    /\ initDone = 0
    /\ ipc = "off"
    /\ spc = "off"
    /\ appLog = << >>
    /\ settings = NullObject
    /\ localFiles = {}
    /\ scanQueue = << >>
    /\ watchQueue = {}
    /\ ingested = << >>

IntegrationOff == GitHubOff /\ AppOff

RestOff == ExtractorOff /\ WebhookOff /\ ModelOff /\ IntegrationOff

----------------------------------------------------------------------------
(* Inputs of splitContent *)

Rep(c, n) == [i \in 1..n |-> c]

\* Lines around the sizes that matter to the loop's test.
LinePalette ==
    { << >>,
      << " " >>,
      << "b" >>,
      << " ", "b", " " >>,
      Rep("a", maxChunkSize \div 2),
      Rep("a", maxChunkSize),
      Rep("a", maxChunkSize + 1),
      << " " >> \o Rep("c", maxChunkSize),
      Rep("d", maxChunkSize + 1) \o << " " >> }

MaxLines == 3

RECURSIVE JoinLines(_)
JoinLines(ls) ==
    IF ls = << >> THEN << >>
    ELSE IF Len(ls) = 1 THEN ls[1]
    ELSE ls[1] \o << "\n" >> \o JoinLines(Tail(ls))

Contents == { JoinLines(ls) : ls \in StringsUpTo(LinePalette, MaxLines) }

----------------------------------------------------------------------------
(* Specification of matchesPattern over all small (path, pattern) pairs *)

InitGlob ==
    /\ config = DefaultConfig
    /\ filePath \in GlobPaths
    /\ pattern \in GlobPatterns
    /\ matched = FALSE
    /\ eligible = FALSE
    /\ op = "none"
    /\ ChunkerOff
    /\ StoreOff
    /\ RestOff

MatchesPattern ==
    /\ op = "none"
    /\ matched' = matchesPattern(filePath, pattern)
    /\ op' = "matchesPattern"
    /\ UNCHANGED << config, filePath, pattern, eligible >>
    /\ UNCHANGED chunkerVars
    /\ UNCHANGED storeVars
    /\ UNCHANGED restVars

NextGlob == MatchesPattern

SpecGlob == InitGlob /\ [][NextGlob]_vars

(* Specification of shouldProcessFile over configurations and paths *)

InitEligible ==
    /\ config \in Configs
    /\ filePath \in RepoPaths
    /\ pattern = << >>
    /\ matched = FALSE
    /\ eligible = FALSE
    /\ op = "none"
    /\ ChunkerOff
    /\ StoreOff
    /\ RestOff

ShouldProcessFile ==
    /\ op = "none"
    /\ eligible' = shouldProcessFile(config, filePath)
    /\ op' = "shouldProcessFile"
    /\ UNCHANGED << config, filePath, pattern, matched >>
    /\ UNCHANGED chunkerVars
    /\ UNCHANGED storeVars
    /\ UNCHANGED restVars

NextEligible == ShouldProcessFile

SpecEligible == InitEligible /\ [][NextEligible]_vars

----------------------------------------------------------------------------
(* Specification of splitContent, one loop iteration per step *)

InitChunk ==
    /\ MatcherOff
    /\ StoreOff
    /\ RestOff
    /\ content \in Contents
    /\ lines = << >>
    /\ lineIdx = 0
    /\ currentChunk = << >>
    /\ chunks = << >>
    /\ result = << >>
    /\ cpc = "start"

\* lines 679-684
SplitBegin ==
    /\ cpc = "start"
    /\ lines' = SplitLines(content)
    /\ lineIdx' = 0
    /\ currentChunk' = << >>
    /\ chunks' = << >>
    /\ cpc' = "loop"
    /\ UNCHANGED << content, result >>
    /\ UNCHANGED matcherVars
    /\ UNCHANGED storeVars
    /\ UNCHANGED restVars

\* lines 686-693
SplitIterate ==
    /\ cpc = "loop"
    /\ lineIdx < Len(lines)
    /\ LET st == SplitStep([chunks |-> chunks, currentChunk |-> currentChunk], lines[lineIdx + 1])
       IN /\ chunks' = st.chunks
          /\ currentChunk' = st.currentChunk
    /\ lineIdx' = lineIdx + 1
    /\ UNCHANGED << content, lines, result, cpc >>
    /\ UNCHANGED matcherVars
    /\ UNCHANGED storeVars
    /\ UNCHANGED restVars

\* lines 695-699
SplitReturn ==
    /\ cpc = "loop"
    /\ lineIdx = Len(lines)
    /\ chunks' = SplitFlush([chunks |-> chunks, currentChunk |-> currentChunk])
    /\ result' = SplitResult(chunks', content)
    /\ cpc' = "done"
    /\ UNCHANGED << content, lines, lineIdx, currentChunk >>
    /\ UNCHANGED matcherVars
    /\ UNCHANGED storeVars
    /\ UNCHANGED restVars

NextChunk == SplitBegin \/ SplitIterate \/ SplitReturn

SpecChunk == InitChunk /\ [][NextChunk]_vars

----------------------------------------------------------------------------
(* Specification of the engine's store operations, one call at a time: the *)
(* handlers of the watchers call addKnowledge ('added' events, scans and   *)
(* syncs), updateKnowledge ('modified') and removeKnowledge ('removed').   *)

Procs == {"h1"}
Ids == {"repo_a_js", "repo_b_js"}

\* Contents that split into one, two and three chunks.
ItemContents ==
    { << "b" >>,
      Rep("a", maxChunkSize) \o << "\n", "b" >>,
      Rep("a", maxChunkSize) \o << "\n" >> \o Rep("c", maxChunkSize) \o << "\n", "d" >> }

Items == [id : Ids, content : ItemContents]

InitStore ==
    /\ MatcherOff
    /\ ChunkerOff
    /\ RestOff
    /\ store = << >>
    /\ calls = [p \in Procs |-> IdleCall]

\* A handler calls addKnowledge(item), updateKnowledge(item) or
\* removeKnowledge(item.id) once no other call is in progress.
Call(p) ==
    /\ \A q \in Procs : Finished(calls[q])
    /\ \E o \in {"add", "update", "remove"}, item \in Items :
           calls' = [calls EXCEPT ![p] =
                        [op |-> o, item |-> item,
                         pc |-> IF o = "add" THEN "add" ELSE "query",
                         chunks |-> << >>, i |-> 0, results |-> {}]]
    /\ UNCHANGED store
    /\ UNCHANGED notStoreVars

\* removeKnowledge, lines 597-606: getCollection and the query succeed.
RemoveQuery(p) ==
    /\ calls[p].pc = "query"
    /\ \E res \in QueryResults(store, calls[p].item.id) :
           calls' = [calls EXCEPT ![p].results = res,
                                  ![p].pc = IF res # {} THEN "delete"
                                            ELSE IF calls[p].op = "update" THEN "add"
                                            ELSE "done"]
    /\ UNCHANGED store
    /\ UNCHANGED notStoreVars

\* removeKnowledge, lines 614-616: the query rejects, the error is logged and
\* removeKnowledge returns normally.
RemoveQueryFails(p) ==
    /\ calls[p].pc = "query"
    /\ calls' = [calls EXCEPT ![p].pc = IF calls[p].op = "update" THEN "add" ELSE "done"]
    /\ UNCHANGED store
    /\ UNCHANGED notStoreVars

\* removeKnowledge, lines 608-613
RemoveDelete(p) ==
    /\ calls[p].pc = "delete"
    /\ store' = CollectionDelete(store, calls[p].results)
    /\ calls' = [calls EXCEPT ![p].pc = IF calls[p].op = "update" THEN "add" ELSE "done"]
    /\ UNCHANGED notStoreVars

\* removeKnowledge, lines 614-616: the delete rejects and is logged.
RemoveDeleteFails(p) ==
    /\ calls[p].pc = "delete"
    /\ calls' = [calls EXCEPT ![p].pc = IF calls[p].op = "update" THEN "add" ELSE "done"]
    /\ UNCHANGED store
    /\ UNCHANGED notStoreVars

\* addKnowledge, lines 560-566: getCollection, splitContent, generateEmbeddings
\* (which falls back to a hash embedding and never rejects).
AddSplit(p) ==
    /\ calls[p].pc = "add"
    /\ calls' = [calls EXCEPT ![p].chunks = splitContent(calls[p].item.content),
                              ![p].i = 0,
                              ![p].pc = "adding"]
    /\ UNCHANGED store
    /\ UNCHANGED notStoreVars

\* addKnowledge, lines 568-581: one iteration of the loop.
AddChunk(p) ==
    /\ calls[p].pc = "adding"
    /\ calls[p].i < Len(calls[p].chunks)
    /\ store' = CollectionAdd(store,
                              ChunkId(calls[p].item.id, calls[p].i),
                              ChunkEntry(calls[p].item, calls[p].chunks, calls[p].i))
    /\ calls' = [calls EXCEPT ![p].i = calls[p].i + 1]
    /\ UNCHANGED notStoreVars

\* addKnowledge, line 569: collection.add rejects; the error leaves
\* addKnowledge (and updateKnowledge) and is caught by the handler.
AddChunkFails(p) ==
    /\ calls[p].pc = "adding"
    /\ calls[p].i < Len(calls[p].chunks)
    /\ calls' = [calls EXCEPT ![p].pc = "failed"]
    /\ UNCHANGED store
    /\ UNCHANGED notStoreVars

\* addKnowledge, line 583 (and updateKnowledge, line 592): the call returns.
AddReturn(p) ==
    /\ calls[p].pc = "adding"
    /\ calls[p].i = Len(calls[p].chunks)
    /\ calls' = [calls EXCEPT ![p].pc = "done"]
    /\ UNCHANGED store
    /\ UNCHANGED notStoreVars

\* getCollection rejects (lines 560, 597): the call throws before it touched
\* the collection.
GetCollectionFails(p) ==
    /\ calls[p].pc \in {"add", "query"}
    /\ calls' = [calls EXCEPT ![p].pc = "failed"]
    /\ UNCHANGED store
    /\ UNCHANGED notStoreVars

NextStore ==
    \E p \in Procs :
        \/ Call(p)
        \/ RemoveQuery(p)
        \/ RemoveQueryFails(p)
        \/ RemoveDelete(p)
        \/ RemoveDeleteFails(p)
        \/ AddSplit(p)
        \/ AddChunk(p)
        \/ AddChunkFails(p)
        \/ AddReturn(p)
        \/ GetCollectionFails(p)

SpecStore == InitStore /\ [][NextStore]_vars

----------------------------------------------------------------------------
(* Specification of extractKnowledge on one file *)

\* Lines of source text that the expressions of the analyzer tell apart,
\* combined with one another into contents of up to MaxContentLines lines.
ShortLines ==
    { << >>,
      << "/","/"," ","l","o","g","i","n" >>,
      << "f","u","n","c","t","i","o","n"," ","f","(",")"," ","{","}" >>,
      << "c","l","a","s","s"," ","F","o","o"," ","{" >>,
      << "e","x","p","o","r","t"," ","d","e","f","a","u","l","t"," ","c","l","a","s","s"," ","A" >>,
      << "e","x","p","o","r","t"," ","l","e","t"," ","v" >>,
      << "i","m","p","o","r","t"," ","T"," ","f","r","o","m"," ","\"","t","y","p","e","s","c","r","i","p","t","\"" >>,
      << "c","r","e","a","t","e","A","p","p","(","u","s","e","S","t","a","t","e",")" >>,
      << "a","p","p",".","g","e","t","(","'","/","'",","," ","h",")" >>,
      << "/","*"," ","a","\n"," ","*"," ","b"," ","*","/" >>,
      << "i","f"," ","(","a"," ","&","&"," ","b"," ","|","|"," ","c",")"," ","{","}" >>,
      << "d","e","f"," ","g","(","r",")",":" >> }

MaxContentLines == 2

\* One more character than the summary's fallback keeps.
LongLineLen == 201

\* Contents taken as they are: long comments and lines, and lines that one
\* expression of the analyzer matches.
OtherContents ==
    { << "/","*" >> \o Rep("-", LongLineLen) \o << "*","/" >>,
      << "/","/" >> \o Rep("-", LongLineLen),
      Rep("-", LongLineLen),
      << "a","&","&","b","&","&","c","&","&","d","&","&","e","&","&","f","&","&","g","&","&","h","&","&","i","&","&","j","&","&","k","&","&","l" >>,
      << "a","&","&","b","&","&","c","&","&","d","&","&","e" >>,
      << "a","&","&","b","&","&","c","&","&","d","&","&","e","&","&","f","&","&","g","&","&","h","&","&","i","&","&","j","&","&","k" >>,
      << "I","M","P","O","R","T"," ","V","U","E" >>,
      << "\t",")","(","*","&","^","%","$"," ","c","l","a","s","s" >>,
      << "/","/" >>,
      << "/","*","*","/" >>,
      << "#"," ","n","o","t","e" >>,
      << "@","C","o","m","p","o","n","e","n","t" >>,
      << "i","m","p","o","r","t"," ","a",".","b",";" >>,
      << "x"," ","="," ","a","s","y","n","c"," ","=",">"," ","1" >>,
      << "h",":"," ","a","s","y","n","c"," ","(","q",")"," ","=",">"," ","1" >>,
      << "f","r","o","m"," ","d","j","a","n","g","o"," ","i","m","p","o","r","t"," ","v","i","e","w","s" >>,
      << "e","x","p","o","r","t"," ","l","e","t"," ","a","\n","e","x","p","o","r","t"," ","l","e","t"," ","b","\n","e","x","p","o","r","t"," ","l","e","t"," ","c" >>,
      << "i","m","p","o","r","t"," ","R"," ","f","r","o","m"," ","'","r","e","a","c","t","'","\n","i","m","p","o","r","t"," ","D"," ","f","r","o","m"," ","'","r","e","a","c","t","-","d","o","m","'" >> }

AnalyzerContents ==
    { JoinLines(ls) : ls \in StringsUpTo(ShortLines, MaxContentLines) } \cup OtherContents

\* A path every content is extracted under, and paths of other kinds: not
\* eligible, without extension, excluded, and in a top-level node_modules.
MainPath == << "s","r","c","/","a","p","i","/","m","o","d","e","l",".","t","s" >>
OtherPaths ==
    { << "n","o","t","e","s",".","t","x","t" >>,
      << "d","o","c","s","/","R","E","A","D","M","E" >>,
      << "l","i","b","/","d","i","s","t","/","u","t","i","l",".","j","s" >>,
      << "n","o","d","e","_","m","o","d","u","l","e","s","/","x","/","c","o","n","f","i","g",".","j","s" >> }

Repository == << "a","c","m","e","/","a","p","p" >>

FileInfos ==
    { [repository |-> Repository, filePath |-> MainPath, content |-> c, lastModified |-> 1] :
        c \in AnalyzerContents }
    \cup
    { [repository |-> Repository, filePath |-> p, content |-> c, lastModified |-> 1] :
        p \in OtherPaths, c \in OtherContents \cup { << >> } }

InitExtract ==
    /\ MatcherOff
    /\ ChunkerOff
    /\ StoreOff
    /\ IntegrationOff
    /\ WebhookOff
    /\ ModelOff
    /\ fileInfo \in FileInfos
    /\ knowledgeItem = NullObject
    /\ analysis = NullObject
    /\ fileInfo2 = NullObject
    /\ knowledgeItem2 = NullObject
    /\ epc = "ready"

\* extractKnowledge(fileInfo), lines 105-132; analysis is the value of its
\* local variable, null when the file was not analyzed.
ExtractKnowledge ==
    /\ epc = "ready"
    /\ knowledgeItem' = extractKnowledge(config, fileInfo)
    /\ analysis' = IF shouldProcessFile(config, fileInfo.filePath)
                   THEN analyzeContent(fileInfo.content, getFileType(fileInfo.filePath))
                   ELSE NullObject
    /\ epc' = "once"
    /\ UNCHANGED << fileInfo, fileInfo2, knowledgeItem2 >>
    /\ UNCHANGED << integrationVars, matcherVars, chunkerVars, storeVars, webhookVars, modelVars >>

NextExtract == ExtractKnowledge

SpecExtract == InitExtract /\ [][NextExtract]_vars

----------------------------------------------------------------------------
(* Specification of extractKnowledge on two files, one call after the other *)

\* Two repository names that differ in a character the id replaces, paths
\* of the same kind (two eligible, one not), three contents and two times.
Repositories == { Repository, << "a","c","m","e","_","a","p","p" >> }
PairPaths == { MainPath, << "s","r","c","/","a","p","i","_","m","o","d","e","l",".","t","s" >>, << "n","o","t","e","s",".","t","x","t" >> }
PairContents == { << >>, << "f","u","n","c","t","i","o","n"," ","f","(",")"," ","{","}" >>, << "/","/"," ","l","o","g","i","n" >> }
PairTimes == { 1, 2 }

PairFileInfos ==
    { [repository |-> r, filePath |-> p, content |-> c, lastModified |-> t] :
        r \in Repositories, p \in PairPaths, c \in PairContents, t \in PairTimes }

InitExtractTwice ==
    /\ MatcherOff
    /\ ChunkerOff
    /\ StoreOff
    /\ IntegrationOff
    /\ WebhookOff
    /\ ModelOff
    /\ fileInfo \in PairFileInfos
    /\ fileInfo2 \in PairFileInfos
    /\ knowledgeItem = NullObject
    /\ analysis = NullObject
    /\ knowledgeItem2 = NullObject
    /\ epc = "ready"

\* A second call of extractKnowledge, lines 105-132, on the second file.
ExtractAgain ==
    /\ epc = "once"
    /\ fileInfo2 # NullObject
    /\ knowledgeItem2' = extractKnowledge(config, fileInfo2)
    /\ epc' = "twice"
    /\ UNCHANGED << fileInfo, fileInfo2, knowledgeItem, analysis >>
    /\ UNCHANGED << integrationVars, matcherVars, chunkerVars, storeVars, webhookVars, modelVars >>

NextExtractTwice == ExtractKnowledge \/ ExtractAgain

SpecExtractTwice == InitExtractTwice /\ [][NextExtractTwice]_vars

----------------------------------------------------------------------------
(* WebhookHandler: the GitHub webhook endpoint *)

\* 'sha256=' followed by createHmac('sha256', secret).update(payload)
\* .digest('hex'); the digest comes from the crypto library and is kept as
\* the secret and the payload it is computed from.
Sign(secret, payload) ==
    << "s","h","a","2","5","6","=" >> \o secret \o << "|" >> \o payload

JsonType == << "a","p","p","l","i","c","a","t","i","o","n","/","j","s","o","n" >>
FormType == << "a","p","p","l","i","c","a","t","i","o","n","/","x","-","w","w","w","-","f","o","r","m","-","u","r","l","e","n","c","o","d","e","d" >>

\* express.raw({ type: 'application/json' }) on /webhook, and express.json()
\* after it: req.body is a Buffer of the body when the request has a body of
\* that type, and the empty object when it has none or one of another type.
ParseBody(req) ==
    IF req.contentType = JsonType /\ req.raw # << >>
    THEN [buffer |-> TRUE, data |-> req.raw]
    ELSE [buffer |-> FALSE, data |-> << >>]

\* payload.toString()
BodyToString(body) == IF body.buffer THEN body.data ELSE << "[","o","b","j","e","c","t"," ","O","b","j","e","c","t","]" >>

\* JSON.parse on the texts of the requests: the object a text denotes; any
\* other text is a SyntaxError.
JsonValues ==
    (<< "{","\"","z","e","n","\"",":","\"","z","\"","}" >> :> [zen |-> << "z" >>])
    @@ (<< "{","\"","r","e","f","\"",":","\"","m","\"","}" >> :> [ref |-> << "m" >>])
    @@ (<< "{","\"","t","y","p","e","\"",":","\"","x","\"","}" >> :> [type |-> << "x" >>])

JsonParse(text) ==
    IF text \in DOMAIN JsonValues THEN [ok |-> TRUE, value |-> JsonValues[text]]
    ELSE [ok |-> FALSE]

\* verifySignature, lines 165-180. hmac.update throws a TypeError when the
\* payload is not a string or a Buffer.
verifySignature(secret, body, signature) ==
    IF secret = << >> THEN [threw |-> FALSE, valid |-> TRUE]
    ELSE IF signature \in { Undefined, << >> } THEN [threw |-> FALSE, valid |-> FALSE]
    ELSE IF ~body.buffer THEN [threw |-> TRUE, valid |-> FALSE]
    ELSE [threw |-> FALSE, valid |-> signature = Sign(secret, body.data)]

----------------------------------------------------------------------------
(* Specification of one request to POST /webhook/github *)

Secret == << "s","3" >>
Secrets == { << >>, Secret }

RawBodies == { << >>, << "{","\"","z","e","n","\"",":","\"","z","\"","}" >>, << "{","\"","r","e","f","\"",":","\"","m","\"","}" >>, << "{","\"","t","y","p","e","\"",":","\"","x","\"","}" >>, << "r","e","f","=","m" >> }

\* No header, an empty one, and the signatures of every body under the
\* secret and under another key.
Signatures ==
    { Undefined, << >> } \cup { Sign(s, r) : s \in { Secret, << "k" >> }, r \in RawBodies }

Requests ==
    { [signature |-> g, contentType |-> t, raw |-> r, event |-> e,
       body |-> [buffer |-> FALSE, data |-> << >>]] :
        g \in Signatures, t \in { JsonType, FormType }, r \in RawBodies,
        e \in { << "p","i","n","g" >>, << "p","u","s","h" >> } }

InitWebhook ==
    /\ MatcherOff
    /\ ChunkerOff
    /\ StoreOff
    /\ IntegrationOff
    /\ ExtractorOff
    /\ ModelOff
    /\ webhookSecret \in Secrets
    /\ request \in Requests
    /\ response = 0
    /\ watcherEvents = << >>
    /\ wpc = "received"

\* The middleware of setupMiddleware, lines 19-33, in front of the route.
Middleware ==
    /\ wpc = "received"
    /\ request' = [request EXCEPT !.body = ParseBody(request)]
    /\ wpc' = "routed"
    /\ UNCHANGED << webhookSecret, response, watcherEvents >>
    /\ UNCHANGED << integrationVars, matcherVars, chunkerVars, storeVars, extractorVars, modelVars >>

\* handleGitHubWebhook, lines 115-162, up to its await: 401 on a signature
\* that does not verify, 500 on anything thrown, pong on a ping, else the
\* event goes to GitHubWatcher.handleWebhookEvent.
HandleGitHubWebhook ==
    /\ wpc = "routed"
    /\ LET verified == verifySignature(webhookSecret, request.body, request.signature)
           eventData == JsonParse(BodyToString(request.body))
       IN IF verified.threw
          THEN response' = 500 /\ wpc' = "done" /\ UNCHANGED watcherEvents
          ELSE IF ~verified.valid
          THEN response' = 401 /\ wpc' = "done" /\ UNCHANGED watcherEvents
          ELSE IF ~eventData.ok
          THEN response' = 500 /\ wpc' = "done" /\ UNCHANGED watcherEvents
          ELSE IF request.event = << "p","i","n","g" >>
          THEN response' = 200 /\ wpc' = "done" /\ UNCHANGED watcherEvents
          ELSE /\ watcherEvents' =
                      Append(watcherEvents, eventData.value @@ [type |-> request.event])
               /\ wpc' = "awaiting"
               /\ UNCHANGED response
    /\ UNCHANGED << webhookSecret, request >>
    /\ UNCHANGED << integrationVars, matcherVars, chunkerVars, storeVars, extractorVars, modelVars >>

\* handleWebhookEvent returns: lines 148-153.
WatcherReturns ==
    /\ wpc = "awaiting"
    /\ response' = 200
    /\ wpc' = "done"
    /\ UNCHANGED << webhookSecret, request, watcherEvents >>
    /\ UNCHANGED << integrationVars, matcherVars, chunkerVars, storeVars, extractorVars, modelVars >>

\* handleWebhookEvent throws: lines 155-161.
WatcherThrows ==
    /\ wpc = "awaiting"
    /\ response' = 500
    /\ wpc' = "done"
    /\ UNCHANGED << webhookSecret, request, watcherEvents >>
    /\ UNCHANGED << integrationVars, matcherVars, chunkerVars, storeVars, extractorVars, modelVars >>

NextWebhook == Middleware \/ HandleGitHubWebhook \/ WatcherReturns \/ WatcherThrows

SpecWebhook == InitWebhook /\ [][NextWebhook]_vars

----------------------------------------------------------------------------
(* CompanyRAGEngine.initializeModel, started by the constructor *)

\* The model names in the order of preference.
Models == << << "g","e","m","i","n","i","-","1",".","5","-","f","l","a","s","h" >>, << "g","e","m","i","n","i","-","1",".","5","-","p","r","o" >>, << "g","e","m","i","n","i","-","1",".","0","-","p","r","o" >> >>

NoModelError == "No Gemini model available. Check your API key."

\* What the call generateContent('test') can come to for a model: an
\* answer, or one of the errors of the service.
TestOutcomes == { "ok", "notFound", "denied", "network" }

InitModel ==
    /\ MatcherOff
    /\ ChunkerOff
    /\ StoreOff
    /\ IntegrationOff
    /\ ExtractorOff
    /\ WebhookOff
    /\ model = Undefined
    /\ modelIdx = 1
    /\ testOutcomes \in [1..Len(Models) -> TestOutcomes]
    /\ initError = ""
    /\ mpc = "loop"

\* this.model = this.gemini.getGenerativeModel({ model: modelName }), and
\* the call of generateContent sent.
GetGenerativeModel ==
    /\ mpc = "loop"
    /\ modelIdx <= Len(Models)
    /\ model' = Models[modelIdx]
    /\ mpc' = "testing"
    /\ UNCHANGED << modelIdx, testOutcomes, initError >>
    /\ UNCHANGED << integrationVars, matcherVars, chunkerVars, storeVars, extractorVars, webhookVars >>

\* The awaited call answers: break.
TestSucceeds ==
    /\ mpc = "testing"
    /\ testOutcomes[modelIdx] = "ok"
    /\ mpc' = "check"
    /\ UNCHANGED << model, modelIdx, testOutcomes, initError >>
    /\ UNCHANGED << integrationVars, matcherVars, chunkerVars, storeVars, extractorVars, webhookVars >>

\* The awaited call throws: catch, continue with the next name.
TestFails ==
    /\ mpc = "testing"
    /\ testOutcomes[modelIdx] # "ok"
    /\ modelIdx' = modelIdx + 1
    /\ mpc' = IF modelIdx = Len(Models) THEN "check" ELSE "loop"
    /\ UNCHANGED << model, testOutcomes, initError >>
    /\ UNCHANGED << integrationVars, matcherVars, chunkerVars, storeVars, extractorVars, webhookVars >>

\* if (!this.model) throw new Error(...), after the loop.
CheckModel ==
    /\ mpc = "check"
    /\ initError' = IF model = Undefined THEN NoModelError ELSE initError
    /\ mpc' = "done"
    /\ UNCHANGED << model, modelIdx, testOutcomes >>
    /\ UNCHANGED << integrationVars, matcherVars, chunkerVars, storeVars, extractorVars, webhookVars >>

NextModel == GetGenerativeModel \/ TestSucceeds \/ TestFails \/ CheckModel

SpecModelInit == InitModel /\ [][NextModel]_vars

----------------------------------------------------------------------------
(* GitHubWatcher: initial sync, webhook events and the manual sync *)

\* `${r.owner}/${r.repo}`
FullName(r) == r.owner \o << "/" >> \o r.repo

\* One element of the some() in shouldExcludeFile
ExcludeMatches(path, excludePath) ==
    IF EndsWith(excludePath, << "/","*","*" >>)
    THEN OccursAt(SubSeq(excludePath, 1, Len(excludePath) - 3), path, 1)
    ELSE Includes(path, excludePath)

\* shouldExcludeFile(filePath, repo.excludePaths); a RepoConfig without
\* excludePaths is a record without that field.
shouldExcludeFile(path, repo) ==
    IF "excludePaths" \notin DOMAIN repo THEN FALSE
    ELSE \E k \in 1..Len(repo.excludePaths) : ExcludeMatches(path, repo.excludePaths[k])

\* The call on the engine that follows extractKnowledge: none when it gave null.
IngestCalls(method, knowledge) ==
    IF knowledge = NullObject THEN << >>
    ELSE << [method |-> method, id |-> knowledge.id,
             repository |-> knowledge.metadata.repository,
             filePath |-> knowledge.metadata.filePath] >>

\* The body of the loop of syncRepository for one tree item, lines 68-100;
\* text is what fetchFileContent returned.  The value is the sequence of
\* calls made on the engine.
SyncItem(repo, item, text) ==
    IF item.type # "blob" \/ item.path = << >> THEN << >>
    ELSE IF shouldExcludeFile(item.path, repo) THEN << >>
    ELSE IF ~shouldProcessFile(DefaultConfig, item.path) THEN << >>
    ELSE IF ~Truthy(text) THEN << >>
    ELSE IngestCalls("addKnowledge",
                     extractKnowledge(DefaultConfig,
                                      [repository |-> FullName(repo), filePath |-> item.path,
                                       content |-> text, lastModified |-> 1]))

\* this.repos.find(r => `${r.owner}/${r.repo}` === repoFullName): the index
\* of the first entry of that name, 0 when there is none.
FindRepo(rs, repoFullName) ==
    LeastOr({ k \in 1..Len(rs) : FullName(rs[k]) = repoFullName }, 0)

\* The part of processFileChange after the three checks, lines 212-243.
ChangeCalls(action, repoFullName, path, text) ==
    IF action = "removed"
    THEN << [method |-> "removeKnowledge", id |-> generateId(repoFullName, path),
             repository |-> repoFullName, filePath |-> path] >>
    ELSE IF ~Truthy(text) THEN << >>
    ELSE IngestCalls(IF action = "modified" THEN "updateKnowledge" ELSE "addKnowledge",
                     extractKnowledge(DefaultConfig,
                                      [repository |-> repoFullName, filePath |-> path,
                                       content |-> text, lastModified |-> 1]))

\* A variant that does not look at the watch list.
processFileChange_Unwatched(rs, action, repoFullName, path, text) ==
    IF ~shouldProcessFile(DefaultConfig, path) THEN << >>
    ELSE ChangeCalls(action, repoFullName, path, text)

\* processFileChange, lines 193-244: the calls made on the engine.
processFileChange(rs, action, repoFullName, path, text) ==
    IF FindRepo(rs, repoFullName) = 0 THEN << >>
    ELSE IF shouldExcludeFile(path, rs[FindRepo(rs, repoFullName)]) THEN << >>
    ELSE IF ~shouldProcessFile(DefaultConfig, path) THEN << >>
    ELSE ChangeCalls(action, repoFullName, path, text)

\* The file changes of the commits of a push, in the order processPushEvent
\* walks them: per commit the added, then the modified, then the removed.
Changes(action, paths) == [k \in 1..Len(paths) |-> [action |-> action, path |-> paths[k]]]

RECURSIVE PushChanges(_)
PushChanges(commits) ==
    IF commits = << >> THEN << >>
    ELSE Changes("added", Head(commits).added)
         \o Changes("modified", Head(commits).modified)
         \o Changes("removed", Head(commits).removed)
         \o PushChanges(Tail(commits))

\* The handler of POST /sync/:owner/:repo and processRepositoryEvent build
\* the RepoConfig they hand to syncRepository from the names alone.
RepoOfNames(owner, repo) == [owner |-> owner, repo |-> repo]

\* The elements of xs at the indices in S, in order.
RECURSIVE Pick(_, _)
Pick(xs, S) ==
    IF S = {} THEN << >>
    ELSE << xs[Least(S)] >> \o Pick(xs, S \ {Least(S)})

\* removeRepositoryKnowledge, lines 247-259: a removeKnowledge for every
\* search result of that repository; results are records the engine was
\* given before.
RemovalCalls(results, repoFullName) ==
    [k \in 1..Len(SelectSeq(results, LAMBDA c : c.repository = repoFullName)) |->
        [method |-> "removeKnowledge",
         id |-> SelectSeq(results, LAMBDA c : c.repository = repoFullName)[k].id,
         repository |-> repoFullName,
         filePath |-> SelectSeq(results, LAMBDA c : c.repository = repoFullName)[k].filePath]]

\* The calls of a job, with the entry point they were made from.
Via(kind, cs) == [k \in 1..Len(cs) |-> [via |-> kind, call |-> cs[k]]]

----------------------------------------------------------------------------
(* Inputs of the GitHubWatcher *)

Acme == << "a","c","m","e" >>
DocsGuide == << "d","o","c","s","/","g","u","i","d","e",".","m","d" >>
SrcApp == << "s","r","c","/","a","p","p",".","t","s" >>

WatchLists ==
    { << [owner |-> Acme, repo |-> << "a","p","p" >>, excludePaths |-> << << "d","o","c","s","/","*","*" >> >>] >>,
      << [owner |-> Acme, repo |-> << "a","p","p" >>],
         [owner |-> Acme, repo |-> << "l","i","b" >>, branch |-> << "d","e","v" >>, excludePaths |-> << << "a","p","p" >> >>] >> }

FullNames == { << "a","c","m","e","/","a","p","p" >>, << "a","c","m","e","/","l","i","b" >>, << "o","t","h","e","r","/","a","p","p" >> }

\* What getTree answers: directories and files, some of them not eligible.
Trees ==
    { << [type |-> "tree", path |-> << "d","o","c","s" >>],
         [type |-> "blob", path |-> DocsGuide],
         [type |-> "blob", path |-> SrcApp],
         [type |-> "blob", path |-> << "n","o","t","e","s",".","t","x","t" >>] >> }

\* What fetchFileContent answers: the content, or null.
FetchResults == { Null, << "x" >> }

Commits ==
    { [added |-> << SrcApp >>, modified |-> << DocsGuide >>, removed |-> << << "s","r","c","/","o","l","d",".","t","s" >> >>],
      [added |-> << << "n","o","t","e","s",".","t","x","t" >> >>, modified |-> << SrcApp >>, removed |-> << >>] }

MaxCommits == 1
MaxJobs == 2

\* Webhook payloads: a ping, repository events and pushes.
Payloads ==
    { [zen |-> TRUE, action |-> << >>, full_name |-> << >>, hasCommits |-> FALSE, commits |-> << >>] }
    \cup
    { [zen |-> FALSE, action |-> a, full_name |-> n, hasCommits |-> FALSE, commits |-> << >>] :
        a \in { << "c","r","e","a","t","e","d" >>, << "d","e","l","e","t","e","d" >>, << "a","r","c","h","i","v","e","d" >> }, n \in FullNames }
    \cup
    { [zen |-> FALSE, action |-> << >>, full_name |-> n, hasCommits |-> TRUE, commits |-> cs] :
        n \in FullNames, cs \in StringsUpTo(Commits, MaxCommits) }

----------------------------------------------------------------------------
(* Specification of the GitHubWatcher, one entry point at a time *)

InitGitHub ==
    /\ MatcherOff
    /\ ChunkerOff
    /\ StoreOff
    /\ ExtractorOff
    /\ WebhookOff
    /\ ModelOff
    /\ AppOff
    /\ repos \in WatchLists
    /\ job = NullObject
    /\ syncQueue = << >>
    /\ pending = << >>
    /\ engineCalls = << >>
    /\ jobCount = 0
    /\ gpc = "idle"

GitHubRest == << matcherVars, chunkerVars, storeVars, extractorVars, webhookVars, modelVars, appVars >>

\* performInitialSync, lines 42-47
PerformInitialSync ==
    /\ gpc = "idle"
    /\ jobCount < MaxJobs
    /\ job' = [kind |-> "initialSync"]
    /\ syncQueue' = repos
    /\ jobCount' = jobCount + 1
    /\ gpc' = "queue"
    /\ UNCHANGED << repos, pending, engineCalls >>
    /\ UNCHANGED GitHubRest

\* POST /sync/:owner/:repo (webhook-handler.ts, lines 59-78): syncRepository
\* for the names of the request.
ManualSync ==
    /\ gpc = "idle"
    /\ jobCount < MaxJobs
    /\ \E n \in FullNames :
           /\ job' = [kind |-> "manualSync", full_name |-> n]
           /\ syncQueue' = << [owner |-> SplitOn(n, "/")[1], repo |-> SplitOn(n, "/")[2],
                                branch |-> << "m","a","i","n" >>] >>
    /\ jobCount' = jobCount + 1
    /\ gpc' = "queue"
    /\ UNCHANGED << repos, pending, engineCalls >>
    /\ UNCHANGED GitHubRest

\* handleWebhookEvent with processRepositoryEvent and the head of
\* processPushEvent, lines 143-173.
HandleWebhookEvent ==
    /\ gpc = "idle"
    /\ jobCount < MaxJobs
    /\ jobCount' = jobCount + 1
    /\ \E payload \in Payloads :
        IF payload.zen
        THEN /\ job' = [kind |-> "ping"]
             /\ UNCHANGED << syncQueue, pending, engineCalls, gpc >>
        ELSE IF payload.action # << >> /\ payload.full_name # << >>
        THEN IF payload.action = << "d","e","l","e","t","e","d" >>
             THEN /\ job' = [kind |-> "deleted", full_name |-> payload.full_name]
                  /\ \E S \in SUBSET (1..Len(engineCalls)) :
                         engineCalls' = engineCalls \o
                             Via("deleted",
                                 RemovalCalls([k \in 1..Len(Pick(engineCalls, S)) |-> Pick(engineCalls, S)[k].call],
                                              payload.full_name))
                  /\ UNCHANGED << syncQueue, pending, gpc >>
             ELSE IF payload.action = << "c","r","e","a","t","e","d" >>
             THEN /\ job' = [kind |-> "created", full_name |-> payload.full_name]
                  /\ syncQueue' = << RepoOfNames(SplitOn(payload.full_name, "/")[1],
                                                 SplitOn(payload.full_name, "/")[2]) >>
                  /\ gpc' = "queue"
                  /\ UNCHANGED << pending, engineCalls >>
             ELSE /\ job' = [kind |-> "repository", full_name |-> payload.full_name]
                  /\ UNCHANGED << syncQueue, pending, engineCalls, gpc >>
        ELSE IF payload.hasCommits /\ payload.full_name # << >>
        THEN /\ job' = [kind |-> "push", full_name |-> payload.full_name, commits |-> payload.commits]
             /\ pending' = PushChanges(payload.commits)
             /\ gpc' = "push"
             /\ UNCHANGED << syncQueue, engineCalls >>
        ELSE /\ job' = [kind |-> "ignored"]
             /\ UNCHANGED << syncQueue, pending, engineCalls, gpc >>
    /\ UNCHANGED repos
    /\ UNCHANGED GitHubRest

\* syncRepository, lines 53-66: getTree answers.
GetTree ==
    /\ gpc = "queue"
    /\ syncQueue # << >>
    /\ \E tree \in Trees : pending' = tree
    /\ gpc' = "tree"
    /\ UNCHANGED << repos, job, syncQueue, engineCalls, jobCount >>
    /\ UNCHANGED GitHubRest

\* syncRepository, lines 104-106: getTree rejects, the error is logged.
GetTreeFails ==
    /\ gpc = "queue"
    /\ syncQueue # << >>
    /\ syncQueue' = Tail(syncQueue)
    /\ UNCHANGED << repos, job, pending, engineCalls, jobCount, gpc >>
    /\ UNCHANGED GitHubRest

\* syncRepository, lines 67-101: one tree item.
SyncTreeItem ==
    /\ gpc = "tree"
    /\ pending # << >>
    /\ \E fetched \in FetchResults :
           engineCalls' = engineCalls \o Via(job.kind, SyncItem(Head(syncQueue), Head(pending), fetched))
    /\ pending' = Tail(pending)
    /\ UNCHANGED << repos, job, syncQueue, jobCount, gpc >>
    /\ UNCHANGED GitHubRest

\* syncRepository, line 103: the tree is done.
SyncRepositoryReturns ==
    /\ gpc = "tree"
    /\ pending = << >>
    /\ syncQueue' = Tail(syncQueue)
    /\ gpc' = "queue"
    /\ UNCHANGED << repos, job, pending, engineCalls, jobCount >>
    /\ UNCHANGED GitHubRest

\* performInitialSync, line 49, and the return of the other callers of
\* syncRepository.
SyncReturns ==
    /\ gpc = "queue"
    /\ syncQueue = << >>
    /\ gpc' = "idle"
    /\ UNCHANGED << repos, job, syncQueue, pending, engineCalls, jobCount >>
    /\ UNCHANGED GitHubRest

\* processPushEvent, lines 174-189: processFileChange for one file.
ProcessFileChange ==
    /\ gpc = "push"
    /\ pending # << >>
    /\ \E fetched \in FetchResults :
           engineCalls' = engineCalls \o
               Via("push", processFileChange(repos, Head(pending).action, job.full_name,
                                             Head(pending).path, fetched))
    /\ pending' = Tail(pending)
    /\ UNCHANGED << repos, job, syncQueue, jobCount, gpc >>
    /\ UNCHANGED GitHubRest

\* processPushEvent, line 190
PushReturns ==
    /\ gpc = "push"
    /\ pending = << >>
    /\ gpc' = "idle"
    /\ UNCHANGED << repos, job, syncQueue, pending, engineCalls, jobCount >>
    /\ UNCHANGED GitHubRest

NextGitHub ==
    \/ PerformInitialSync
    \/ ManualSync
    \/ HandleWebhookEvent
    \/ GetTree
    \/ GetTreeFails
    \/ SyncTreeItem
    \/ SyncRepositoryReturns
    \/ SyncReturns
    \/ ProcessFileChange
    \/ PushReturns

SpecGitHub == InitGitHub /\ [][NextGitHub]_vars

----------------------------------------------------------------------------
(* LocalFileWatcher: scan, watchers and file events *)

\* path.relative(from, to) for a path `to` below the directory `from`.
relative(from, to) ==
    IF OccursAt(from \o << "/" >>, to, 1) THEN SubSeq(to, Len(from) + 2, Len(to)) ELSE to

\* repo.excludePaths || []
ExcludePathsOf(repo) == IF "excludePaths" \in DOMAIN repo THEN repo.excludePaths ELSE << >>

\* defaultExcludes of shouldExcludePath
DefaultExcludes ==
    << << "n","o","d","e","_","m","o","d","u","l","e","s" >>, << ".","g","i","t" >>, << "d","i","s","t" >>, << "b","u","i","l","d" >>, << "c","o","v","e","r","a","g","e" >>, << ".","n","y","c","_","o","u","t","p","u","t" >> >>

\* shouldExcludePath(path, repo.excludePaths)
shouldExcludePath(path, repo) ==
    \E k \in 1..Len(DefaultExcludes \o ExcludePathsOf(repo)) :
        IF EndsWith((DefaultExcludes \o ExcludePathsOf(repo))[k], << "/","*","*" >>)
        THEN Includes(path, SubSeq((DefaultExcludes \o ExcludePathsOf(repo))[k], 1,
                                   Len((DefaultExcludes \o ExcludePathsOf(repo))[k]) - 3))
        ELSE Includes(path, (DefaultExcludes \o ExcludePathsOf(repo))[k])

\* getAllFiles(repo.path, repo.excludePaths) on a directory that holds the
\* listed files: a file is returned unless its path relative to the working
\* directory, or that of a directory above it, is excluded; the path of such
\* a directory is a part of the path of the file.
getAllFiles(listing, cwd, repo) ==
    SelectSeq(listing, LAMBDA f : ~shouldExcludePath(relative(cwd, f), repo))

\* defaultIgnored of createIgnorePatterns
DefaultIgnored ==
    << << "*","*","/","n","o","d","e","_","m","o","d","u","l","e","s","/","*","*" >>, << "*","*","/",".","g","i","t","/","*","*" >>, << "*","*","/","d","i","s","t","/","*","*" >>, << "*","*","/","b","u","i","l","d","/","*","*" >>, << "*","*","/","c","o","v","e","r","a","g","e","/","*","*" >>,
       << "*","*","/",".","n","y","c","_","o","u","t","p","u","t","/","*","*" >>, << "*","*","/","*",".","l","o","g" >>, << "*","*","/",".","D","S","_","S","t","o","r","e" >>, << "*","*","/","T","h","u","m","b","s",".","d","b" >> >>

\* createIgnorePatterns(repo.excludePaths): the sources of the RegExps.
createIgnorePatterns(repo) ==
    [k \in 1..Len(DefaultIgnored \o ExcludePathsOf(repo)) |->
        GlobToRegex((DefaultIgnored \o ExcludePathsOf(repo))[k])]

\* chokidar leaves out a path that one of the `ignored` RegExps matches.
Ignored(path, regexps) == \E k \in 1..Len(regexps) : RegExpTest(regexps[k], path)

\* LocalFileWatcher.generateKnowledgeId, lines 154-158
generateKnowledgeId(repoName, path) ==
    [i \in 1..Len(repoName) |->
        IF repoName[i] \in Range(LowerCase) \cup Range(UpperCase) \cup Range(DigitChars)
        THEN repoName[i] ELSE "_"]
    \o << "_" >> \o
    [i \in 1..Len(path) |->
        IF path[i] \in Range(LowerCase) \cup Range(UpperCase) \cup Range(DigitChars)
        THEN path[i] ELSE "_"]

\* What is read of a file: its content, or a rejection of readFile / stat.
ReadFails == Null

\* scanRepository, lines 179-206, for one file: the calls made on the engine.
ScanFileCalls(repo, path, read) ==
    IF ~shouldProcessFile(DefaultConfig, relative(repo.path, path)) THEN << >>
    ELSE IF read = ReadFails THEN << >>
    ELSE IngestCalls("addKnowledge",
                     extractKnowledge(DefaultConfig,
                                      [repository |-> repo.name,
                                       filePath |-> relative(repo.path, path),
                                       content |-> read, lastModified |-> 1]))

\* handleFileEvent, lines 110-151: the calls made on the engine.
handleFileEvent(action, repo, path, read) ==
    IF ~shouldProcessFile(DefaultConfig, relative(repo.path, path)) THEN << >>
    ELSE IF action = "removed"
    THEN << [method |-> "removeKnowledge",
             id |-> generateKnowledgeId(repo.name, relative(repo.path, path)),
             repository |-> repo.name, filePath |-> relative(repo.path, path)] >>
    ELSE IF read = ReadFails THEN << >>
    ELSE IngestCalls(IF action = "modified" THEN "updateKnowledge" ELSE "addKnowledge",
                     extractKnowledge(DefaultConfig,
                                      [repository |-> repo.name,
                                       filePath |-> relative(repo.path, path),
                                       content |-> read, lastModified |-> 1]))

----------------------------------------------------------------------------
(* CompanyRAGApplication *)

NotInitialized == << "S","y","s","t","e","m"," ","n","o","t"," ","i","n","i","t","i","a","l","i","z","e","d" >>

\* What a call on the application does at once: whether it throws, the
\* message of the error, and the parts of the system it uses.
Threw(message) == [threw |-> TRUE, message |-> message, touched |-> {}]
Used(parts) == [threw |-> FALSE, message |-> << >>, touched |-> parts]

\* startSystem, lines 51-60
startSystem(sys) ==
    IF sys = NullObject THEN Threw(NotInitialized \o << "."," ","C","a","l","l"," ","i","n","i","t","i","a","l","i","z","e","(",")"," ","f","i","r","s","t","." >>)
    ELSE Used({"webhookHandler", "githubWatcher", "localWatcher"})

\* A variant without the test of this.system: the access to the engine fails.
askQuestion_Unguarded(sys) ==
    IF sys = NullObject THEN Threw(<< "C","a","n","n","o","t"," ","r","e","a","d"," ","p","r","o","p","e","r","t","i","e","s"," ","o","f"," ","n","u","l","l" >>)
    ELSE Used({"ragEngine"})

\* askQuestion, lines 120-126
askQuestion(sys) ==
    IF sys = NullObject THEN Threw(NotInitialized)
    ELSE Used({"ragEngine"})

\* searchKnowledge, lines 128-134
searchKnowledge(sys) ==
    IF sys = NullObject THEN Threw(NotInitialized)
    ELSE Used({"ragEngine"})

\* getSystemStats, lines 136-152
getSystemStats(sys) ==
    IF sys = NullObject THEN Threw(NotInitialized)
    ELSE Used({"ragEngine", "localWatcher"})

\* shutdown, lines 154-163
shutdown(sys) ==
    IF sys = NullObject THEN Used({})
    ELSE Used({"localWatcher"})

\* An entry of the log: the call, whether an initialize() had completed when
\* it was made, and what it did.
LogEntry(method, outcome) ==
    [method |-> method, early |-> (initDone = 0), threw |-> outcome.threw,
     message |-> outcome.message, touched |-> outcome.touched]

----------------------------------------------------------------------------
(* Inputs of the application *)

Cwd == << "/","s","r","v" >>
LocalRepos ==
    { [name |-> << "a","p","p" >>, path |-> << "/","s","r","v","/","a","p","p" >>],
      [name |-> << "a","p","p" >>, path |-> << "/","s","r","v","/","a","p","p" >>, excludePaths |-> << << "d","o","c","s","/","*","*" >> >>] }
LocalListings ==
    { << << "/","s","r","v","/","a","p","p","/","i","n","d","e","x",".","t","s" >>, << "/","s","r","v","/","a","p","p","/","s","r","c","/","a","p","p",".","t","s" >> >>,
      << << "/","s","r","v","/","a","p","p","/","s","r","c","/","a","p","p",".","t","s" >>, << "/","s","r","v","/","a","p","p","/","d","o","c","s","/","g","u","i","d","e",".","m","d" >>, << "/","s","r","v","/","a","p","p","/","n","o","t","e","s",".","t","x","t" >> >>,
      << << "/","s","r","v","/","a","p","p","/","d","i","s","t","/","u","t","i","l",".","j","s" >> >> }
ReadResults == { ReadFails, << "x" >> }

MaxInits == 1
MaxCalls == 2

----------------------------------------------------------------------------
(* Specification of the application: initialize, startSystem and the calls *)

InitApp ==
    /\ MatcherOff
    /\ ChunkerOff
    /\ StoreOff
    /\ ExtractorOff
    /\ WebhookOff
    /\ ModelOff
    /\ GitHubOff
    /\ system = NullObject
    /\ initDone = 0
    /\ ipc = "idle"
    /\ spc = "idle"
    /\ appLog = << >>
    /\ settings \in [enableRealTimeSync : BOOLEAN, local : LocalRepos]
    /\ localFiles \in LocalListings
    /\ scanQueue = << >>
    /\ watchQueue = {}
    /\ ingested = << >>

AppRest == << matcherVars, chunkerVars, storeVars, extractorVars, webhookVars, modelVars, githubVars >>

\* initialize, lines 22-27: the engine is made and ragEngine.initialize() awaited.
Initialize ==
    /\ ipc = "idle"
    /\ initDone < MaxInits
    /\ ipc' = "engine"
    /\ UNCHANGED << system, initDone, spc, appLog, settings, localFiles, scanQueue, watchQueue, ingested >>
    /\ UNCHANGED AppRest

\* initialize, lines 29-48: the watchers are made and this.system is set.
InitializeCompletes ==
    /\ ipc = "engine"
    /\ system' = [generation |-> initDone + 1]
    /\ initDone' = initDone + 1
    /\ ipc' = "idle"
    /\ UNCHANGED << spc, appLog, settings, localFiles, scanQueue, watchQueue, ingested >>
    /\ UNCHANGED AppRest

\* initialize, line 27: ragEngine.initialize() rejects and so does initialize.
InitializeFails ==
    /\ ipc = "engine"
    /\ ipc' = "idle"
    /\ UNCHANGED << system, initDone, spc, appLog, settings, localFiles, scanQueue, watchQueue, ingested >>
    /\ UNCHANGED AppRest

\* askQuestion, lines 120-126; main awaits startSystem before it makes
\* another call, a signal alone (shutdown) comes at any time.
AskQuestion ==
    /\ spc \in {"idle", "running"}
    /\ Len(appLog) < MaxCalls
    /\ appLog' = Append(appLog, LogEntry("askQuestion", askQuestion(system)))
    /\ UNCHANGED << system, initDone, ipc, spc, settings, localFiles, scanQueue, watchQueue, ingested >>
    /\ UNCHANGED AppRest

\* searchKnowledge, lines 128-134
SearchKnowledge ==
    /\ spc \in {"idle", "running"}
    /\ Len(appLog) < MaxCalls
    /\ appLog' = Append(appLog, LogEntry("searchKnowledge", searchKnowledge(system)))
    /\ UNCHANGED << system, initDone, ipc, spc, settings, localFiles, scanQueue, watchQueue, ingested >>
    /\ UNCHANGED AppRest

\* getSystemStats, lines 136-152
GetSystemStats ==
    /\ spc \in {"idle", "running"}
    /\ Len(appLog) < MaxCalls
    /\ appLog' = Append(appLog, LogEntry("getSystemStats", getSystemStats(system)))
    /\ UNCHANGED << system, initDone, ipc, spc, settings, localFiles, scanQueue, watchQueue, ingested >>
    /\ UNCHANGED AppRest

\* shutdown, lines 154-163: stopAllWatchers closes the watchers, which
\* deliver no further event.
Shutdown ==
    /\ Len(appLog) < MaxCalls
    /\ appLog' = Append(appLog, LogEntry("shutdown", shutdown(system)))
    /\ watchQueue' = IF system = NullObject THEN watchQueue ELSE {}
    /\ UNCHANGED << system, initDone, ipc, spc, settings, localFiles, scanQueue, ingested >>
    /\ UNCHANGED AppRest

\* startSystem, lines 51-56
StartSystem ==
    /\ spc = "idle"
    /\ Len(appLog) < MaxCalls
    /\ appLog' = Append(appLog, LogEntry("startSystem", startSystem(system)))
    /\ spc' = IF system = NullObject THEN "idle" ELSE "server"
    /\ UNCHANGED << system, initDone, ipc, settings, localFiles, scanQueue, watchQueue, ingested >>
    /\ UNCHANGED AppRest

\* startSystem, lines 58-63: the webhook server listens.
StartServer ==
    /\ spc = "server"
    /\ spc' = IF settings.enableRealTimeSync THEN "github" ELSE "webhooks"
    /\ UNCHANGED << system, initDone, ipc, appLog, settings, localFiles, scanQueue, watchQueue, ingested >>
    /\ UNCHANGED AppRest

\* startSystem, lines 66-70, and scanRepository, lines 172-177: the GitHub
\* sync is done and getAllFiles has answered.
PerformInitialScan ==
    /\ spc = "github"
    /\ scanQueue' = getAllFiles(localFiles, Cwd, settings.local)
    /\ spc' = "scan"
    /\ UNCHANGED << system, initDone, ipc, appLog, settings, localFiles, watchQueue, ingested >>
    /\ UNCHANGED AppRest

\* scanRepository, lines 179-206: one file.
ScanFile ==
    /\ spc = "scan"
    /\ scanQueue # << >>
    /\ \E read \in ReadResults :
           ingested' = ingested \o Via("scan", ScanFileCalls(settings.local, Head(scanQueue), read))
    /\ scanQueue' = Tail(scanQueue)
    /\ UNCHANGED << system, initDone, ipc, spc, appLog, settings, localFiles, watchQueue >>
    /\ UNCHANGED AppRest

\* scanRepository, line 208, and performInitialScan, line 168
ScanReturns ==
    /\ spc = "scan"
    /\ scanQueue = << >>
    /\ spc' = "watch"
    /\ UNCHANGED << system, initDone, ipc, appLog, settings, localFiles, scanQueue, watchQueue, ingested >>
    /\ UNCHANGED AppRest

\* startSystem, line 73, and watchRepository, lines 42-75: chokidar watches
\* the directory with ignoreInitial: false and will deliver an 'add' event
\* for every file in it that is not ignored.
StartWatching ==
    /\ spc = "watch"
    /\ watchQueue' = { localFiles[k] : k \in { j \in 1..Len(localFiles) :
                          ~Ignored(localFiles[j], createIgnorePatterns(settings.local)) } }
    /\ spc' = "webhooks"
    /\ UNCHANGED << system, initDone, ipc, appLog, settings, localFiles, scanQueue, ingested >>
    /\ UNCHANGED AppRest

\* watchRepository, lines 77-79: the directory cannot be accessed.
WatchFails ==
    /\ spc = "watch"
    /\ spc' = "webhooks"
    /\ UNCHANGED << system, initDone, ipc, appLog, settings, localFiles, scanQueue, watchQueue, ingested >>
    /\ UNCHANGED AppRest

\* startSystem, lines 78-85: the webhooks are set up when enabled, which
\* concerns no local file, and startSystem returns.
SetupWebhooks ==
    /\ spc = "webhooks"
    /\ spc' = "running"
    /\ UNCHANGED << system, initDone, ipc, appLog, settings, localFiles, scanQueue, watchQueue, ingested >>
    /\ UNCHANGED AppRest

\* The 'add' event of chokidar for a file that was there when the watcher
\* started, line 65, and its handler.
ChokidarAdd ==
    /\ \E f \in watchQueue, read \in ReadResults :
           /\ ingested' = ingested \o Via("watcher", handleFileEvent("added", settings.local, f, read))
           /\ watchQueue' = watchQueue \ {f}
    /\ UNCHANGED << system, initDone, ipc, spc, appLog, settings, localFiles, scanQueue >>
    /\ UNCHANGED AppRest

NextApp ==
    \/ Initialize
    \/ InitializeCompletes
    \/ InitializeFails
    \/ AskQuestion
    \/ SearchKnowledge
    \/ GetSystemStats
    \/ Shutdown
    \/ StartSystem
    \/ StartServer
    \/ PerformInitialScan
    \/ ScanFile
    \/ ScanReturns
    \/ StartWatching
    \/ WatchFails
    \/ SetupWebhooks
    \/ ChokidarAdd

SpecApp == InitApp /\ [][NextApp]_vars

----------------------------------------------------------------------------
(* Specification of the watchers' event handlers running concurrently: the *)
(* watchers start a handler per event without awaiting it, and each        *)
(* handler's engine call takes several awaited steps on the one collection *)

Handlers == {"h1", "h2"}

\* Handlers are started in the order of their events.
EarlierHandlers(p) == IF p = "h2" THEN {"h1"} ELSE {}

FileActions == {"added", "modified", "removed"}

\* One file under the local watcher, one under the GitHub watcher.
WatchedFiles ==
    { [watcher |-> "local", repository |-> << "a","p","p" >>, filePath |-> << "s","r","c","/","a","p","p",".","t","s" >>],
      [watcher |-> "github", repository |-> << "a","c","m","e","/","a","p","p" >>, filePath |-> << "s","r","c","/","a","p","p",".","t","s" >>] }

\* The contents of the items extractKnowledge builds from versions of a file:
\* one chunk, two chunks, and one chunk again.
ItemVersions ==
    { << "b" >>,
      Rep("a", maxChunkSize) \o << "\n", "b" >>,
      << "d" >> }

\* The id a handler passes to the engine: the 'removed' branch computes it
\* itself (generateKnowledgeId in the local watcher, the extractor's
\* generateId in the GitHub watcher); otherwise it is the id of the item
\* extractKnowledge built.
EventId(action, file) ==
    IF action = "removed" /\ file.watcher = "local"
    THEN generateKnowledgeId(file.repository, file.filePath)
    ELSE generateId(file.repository, file.filePath)

\* The engine method a handler calls for an event.
EngineOp(action) ==
    CASE action = "removed" -> "remove"
      [] action = "modified" -> "update"
      [] OTHER -> "add"

IdleHandler ==
    [op |-> "none", item |-> [id |-> << >>, content |-> << >>], pc |-> "idle",
     chunks |-> << >>, i |-> 0, results |-> {}, action |-> "none", file |-> NullObject]

\* The collection after addKnowledge stored item in an empty collection.
StoredItem(item) ==
    [k \in { ChunkId(item.id, i) : i \in 0..(Len(splitContent(item.content)) - 1) } |->
        ChunkEntry(item, splitContent(item.content), k[3])]

\* The collection is empty, or holds a file an earlier event added.
InitialStores ==
    { << >> } \cup
    { StoredItem([id |-> EventId("added", f), content |-> << "b" >>]) :
        f \in { g \in WatchedFiles : g.watcher = "local" } }

InitHandlers ==
    /\ MatcherOff
    /\ ChunkerOff
    /\ RestOff
    /\ store \in InitialStores
    /\ calls = [p \in Handlers |-> IdleHandler]

\* handleFileEvent / processFileChange up to the engine call: the file is
\* read (fetched) unless it was removed, the item is built, and the engine
\* method is entered. Nothing waits for a handler that is still running.
HandleFileEvent(p) ==
    /\ calls[p].pc = "idle"
    /\ \A q \in EarlierHandlers(p) : calls[q].pc # "idle"
    /\ \E action \in FileActions, file \in WatchedFiles, text \in ItemVersions :
           calls' = [calls EXCEPT ![p] =
                        [op |-> EngineOp(action),
                         item |-> [id |-> EventId(action, file),
                                   content |-> IF action = "removed" THEN << >> ELSE text],
                         pc |-> IF action = "added" THEN "add" ELSE "query",
                         chunks |-> << >>, i |-> 0, results |-> {},
                         action |-> action, file |-> file]]
    /\ UNCHANGED store
    /\ UNCHANGED notStoreVars

NextHandlers ==
    \E p \in Handlers :
        \/ HandleFileEvent(p)
        \/ RemoveQuery(p)
        \/ RemoveQueryFails(p)
        \/ RemoveDelete(p)
        \/ RemoveDeleteFails(p)
        \/ AddSplit(p)
        \/ AddChunk(p)
        \/ AddChunkFails(p)
        \/ AddReturn(p)
        \/ GetCollectionFails(p)

SpecHandlers == InitHandlers /\ [][NextHandlers]_vars

----------------------------------------------------------------------------
(* Claims about the pattern matcher *)

Excluded(cfg, path) ==
    \E i \in 1..Len(cfg.excludePatterns) : matchesPattern(path, cfg.excludePatterns[i])

Included(cfg, path) ==
    \E i \in 1..Len(cfg.includePatterns) : matchesPattern(path, cfg.includePatterns[i])

\* C1: a path that matches at least one exclude pattern is never eligible,
\* whatever include patterns it also matches.
C1_ExclusionWins ==
    (op = "shouldProcessFile" /\ Excluded(config, filePath)) => eligible = FALSE

C1_Witness ==
    /\ op = "shouldProcessFile"
    /\ Excluded(config, filePath)
    /\ Included(config, filePath)
    /\ eligible = FALSE

NodeModulesFooBarJs ==
    << "n","o","d","e","_","m","o","d","u","l","e","s","/","f","o","o","/","b","a","r",".","j","s" >>

\* C2: with the default configuration, shouldProcessFile("node_modules/foo/bar.js")
\* is false.
C2_NodeModulesIneligible ==
    (op = "shouldProcessFile" /\ config = DefaultConfig /\ filePath = NodeModulesFooBarJs)
        => eligible = FALSE

\* The glob semantics of the specification, one pass over the pattern:
\* `**` any sequence of characters, `*` any sequence without '/', `?` one
\* character; every other character as matchesPattern leaves it.
RECURSIVE ReferenceRegex(_)
ReferenceRegex(pat) ==
    IF pat = << >> THEN << >>
    ELSE IF OccursAt(<< "*", "*" >>, pat, 1)
         THEN << ".", "*" >> \o ReferenceRegex(SubSeq(pat, 3, Len(pat)))
    ELSE IF pat[1] = "*"
         THEN << "[", "^", "/", "]", "*" >> \o ReferenceRegex(Tail(pat))
    ELSE IF pat[1] = "?"
         THEN << "." >> \o ReferenceRegex(Tail(pat))
    ELSE << pat[1] >> \o ReferenceRegex(Tail(pat))

ReferenceMatches(path, pat) == RegExpTest(ReferenceRegex(pat), path)

\* C3: matchesPattern agrees with the reference matcher on every path and pattern.
C3_MatchesReference ==
    op = "matchesPattern" => (matched = ReferenceMatches(filePath, pattern))

----------------------------------------------------------------------------
(* Claims about splitContent *)

NoLongLine == \A k \in 1..Len(lines) : Len(lines[k]) <= maxChunkSize

\* C5: when no line is longer than maxChunkSize, every returned chunk has
\* length at most maxChunkSize.
C5_ChunksWithinMax ==
    (cpc = "done" /\ NoLongLine)
        => \A i \in 1..Len(result) : Len(result[i]) <= maxChunkSize

\* C6: a content longer than maxChunkSize without a line longer than
\* maxChunkSize is split into at least two chunks.
C6_AtLeastTwoChunks ==
    (cpc = "done" /\ Len(content) > maxChunkSize /\ NoLongLine)
        => Len(result) >= 2

\* C7: the returned array is never empty, and when the walk over the lines
\* pushed no chunk it is the original content alone, unchanged.
C7_NeverEmpty ==
    cpc = "done" =>
        /\ Len(result) >= 1
        /\ (chunks = << >> => result = << content >>)

C7_Witness ==
    /\ cpc = "done"
    /\ chunks = << >>
    /\ content # << >>
    /\ result = << content >>

\* The lines from..to joined by line breaks.
LinesJoined(from, to) == JoinLines(SubSeq(lines, from, to))

\* C8: the chunks are, in order, consecutive groups of lines that cover every
\* line once, each group joined by line breaks; a chunk and its group differ at
\* most by leading and trailing whitespace.
C8_RoundTrip ==
    cpc = "done" =>
        \E last \in [1..Len(result) -> 1..Len(lines)] :
            /\ last[Len(result)] = Len(lines)
            /\ \A i \in 1..(Len(result) - 1) : last[i] < last[i + 1]
            /\ \A i \in 1..Len(result) :
                   Trim(result[i]) =
                       Trim(LinesJoined(IF i = 1 THEN 1 ELSE last[i - 1] + 1, last[i]))

C8_Witness ==
    /\ cpc = "done"
    /\ Len(result) >= 2
    /\ Len(lines) > Len(result)
    /\ \E k \in 1..Len(lines) : lines[k] # Trim(lines[k])

FirstLine(s) == SplitLines(s)[1]

LongLineConsumed ==
    cpc = "loop" /\ lineIdx >= 1 /\ Len(lines[lineIdx]) > maxChunkSize

----------------------------------------------------------------------------
(* Claims about the store operations *)

\* The records of the collection that carry originalId = id.
StoredFor(id) == { k \in DOMAIN store : store[k].originalId = id }

\* The collection holds for item exactly one record per chunk of its content,
\* under the ids `${item.id}_chunk_${i}`, record i with chunk i as document and
\* chunkIndex i, originalId item.id and totalChunks n in its metadata.
HoldsExactly(item) ==
    LET cs == splitContent(item.content)
    IN /\ StoredFor(item.id) = { ChunkId(item.id, i) : i \in 0..(Len(cs) - 1) }
       /\ \A i \in 0..(Len(cs) - 1) :
              store[ChunkId(item.id, i)] = ChunkEntry(item, cs, i)

\* C4: after updateKnowledge(item) has returned, the records with
\* originalId = item.id are exactly the chunks of item.
C4_UpdateReplaces ==
    \A p \in Procs :
        (calls[p].op = "update" /\ calls[p].pc = "done") => HoldsExactly(calls[p].item)

\* C10: after addKnowledge(item) has returned, the collection holds for the
\* item exactly its n chunks, in splitContent order.
C10_AddStoresChunks ==
    \A p \in Procs :
        (calls[p].op = "add" /\ calls[p].pc = "done") => HoldsExactly(calls[p].item)

----------------------------------------------------------------------------
(* Claims about eligibility, continued *)

\* C13: a path that matches no exclude pattern and no include pattern is not
\* eligible.
C13_DefaultDeny ==
    (op = "shouldProcessFile" /\ ~Excluded(config, filePath) /\ ~Included(config, filePath))
        => eligible = FALSE

C13_Witness ==
    /\ op = "shouldProcessFile"
    /\ config = DefaultConfig
    /\ ~Excluded(config, filePath)
    /\ ~Included(config, filePath)
    /\ eligible = FALSE

----------------------------------------------------------------------------
(* Claims about extractKnowledge *)

\* The file types getFileType can return.
FileTypes == { TypeMap[k][2] : k \in 1..Len(TypeMap) } \cup { << "u","n","k","n","o","w","n" >> }

\* Every field of the item has a value: the strings are strings and not
\* empty where the code always writes something, the lists are lists, and
\* framework holds a framework of the table or, when none is detected, undefined.
FullyPopulated(it, fi) ==
    /\ it.id \notin { Null, Undefined, << >> }
    /\ it.title \notin { Null, Undefined, << >> }
    /\ it.content \notin { Null, Undefined, << >> }
    /\ it.metadata.repository = fi.repository
    /\ it.metadata.filePath = fi.filePath
    /\ it.metadata.fileType \in FileTypes
    /\ it.metadata.lastModified = fi.lastModified
    /\ it.metadata.contentHash \notin { Null, Undefined, << >> }
    /\ Len(it.metadata.tags) > 0
    /\ \A t \in 1..Len(it.metadata.tags) :
           it.metadata.tags[t] \notin { Null, Undefined, << >> }
    /\ it.metadata.language \in FileTypes
    /\ it.metadata.framework \in { Frameworks[f].name : f \in 1..Len(Frameworks) } \cup { Undefined }
    /\ DOMAIN it.metadata.dependencies = 1..Len(it.metadata.dependencies)
    /\ \A d \in 1..Len(it.metadata.dependencies) :
           it.metadata.dependencies[d] \notin { Null, Undefined, << >> }

\* C12: extractKnowledge returns null exactly when the path is not eligible,
\* and for an eligible path it returns, whatever the content is, an item with
\* all its fields set.
C12_NullIffIneligible ==
    epc = "once" =>
        /\ (knowledgeItem = NullObject) <=>
               (Excluded(config, fileInfo.filePath) \/ ~Included(config, fileInfo.filePath))
        /\ knowledgeItem # NullObject => FullyPopulated(knowledgeItem, fileInfo)

C12_Witness ==
    /\ epc = "once"
    /\ fileInfo.filePath = << "d","o","c","s","/","R","E","A","D","M","E" >>
    /\ fileInfo.content = << "\t",")","(","*","&","^","%","$"," ","c","l","a","s","s" >>
    /\ knowledgeItem # NullObject
    /\ knowledgeItem.metadata.fileType = << "u","n","k","n","o","w","n" >>

----------------------------------------------------------------------------
(* Claims about the id and the content hash *)

\* C11: two files with the same repository and the same eligible path get the
\* same id, whatever their contents and times of last change are, and get
\* different content hashes when their contents differ.
C11_StableIdFreshHash ==
    (/\ epc = "twice"
     /\ fileInfo.repository = fileInfo2.repository
     /\ fileInfo.filePath = fileInfo2.filePath
     /\ ~Excluded(config, fileInfo.filePath)
     /\ Included(config, fileInfo.filePath))
    => /\ knowledgeItem # NullObject
       /\ knowledgeItem2 # NullObject
       /\ knowledgeItem.id = knowledgeItem2.id
       /\ (fileInfo.content # fileInfo2.content =>
               knowledgeItem.metadata.contentHash # knowledgeItem2.metadata.contentHash)

C11_Witness ==
    /\ epc = "twice"
    /\ fileInfo.repository = fileInfo2.repository
    /\ fileInfo.filePath = MainPath
    /\ fileInfo2.filePath = MainPath
    /\ fileInfo.content # fileInfo2.content
    /\ fileInfo.lastModified # fileInfo2.lastModified
    /\ knowledgeItem # NullObject
    /\ knowledgeItem2 # NullObject
    /\ knowledgeItem.id = knowledgeItem2.id
    /\ knowledgeItem.metadata.contentHash # knowledgeItem2.metadata.contentHash

----------------------------------------------------------------------------
(* Claims about the content analyzer *)

\* C14: the summary of an analyzed content has at most 200 characters,
\* whether it comes from a block comment, from the leading line comments or
\* from the first three non-empty lines.
C14_SummaryAtMost200 ==
    (epc = "once" /\ analysis # NullObject) => Len(analysis.summary) <= 200

\* C15: the title is the basename followed by " - " and the first function
\* when a function was found, else the first class when a class was found,
\* else the first two exports separated by ", " when an export was found;
\* with none of them it is the basename alone.
C15_TitlePrecedence ==
    (epc = "once" /\ knowledgeItem # NullObject) =>
        LET base == Basename(fileInfo.filePath)
            dash == << " ","-"," " >>
            ex == analysis.exports
        IN knowledgeItem.title =
               IF Len(analysis.functions) > 0 THEN base \o dash \o analysis.functions[1]
               ELSE IF Len(analysis.classes) > 0 THEN base \o dash \o analysis.classes[1]
               ELSE IF Len(ex) = 1 THEN base \o dash \o ex[1]
               ELSE IF Len(ex) > 1 THEN base \o dash \o ex[1] \o << ","," " >> \o ex[2]
               ELSE base

C15_Witness ==
    /\ epc = "once"
    /\ fileInfo.filePath = MainPath
    /\ fileInfo.content = << "c","l","a","s","s"," ","F","o","o"," ","{","\n","f","u","n","c","t","i","o","n"," ","f","(",")"," ","{","}" >>
    /\ knowledgeItem # NullObject
    /\ analysis.functions = << << "f" >> >>
    /\ analysis.classes[1] = << "F","o","o" >>
    /\ knowledgeItem.title = << "m","o","d","e","l",".","t","s"," ","-"," ","f" >>

\* Three exports and nothing else: the title keeps the first two.
C15_WitnessExports ==
    /\ epc = "once"
    /\ fileInfo.filePath = MainPath
    /\ analysis # NullObject
    /\ Len(analysis.exports) = 3
    /\ knowledgeItem.title = << "m","o","d","e","l",".","t","s"," ","-"," ","a",","," ","b" >>

\* C16: the tags hold 'complex' exactly when the complexity is above 10 and
\* 'simple' exactly when it is at most 3, hence never both and neither for
\* 4..10, and no tag occurs twice.
C16_ComplexityTags ==
    (epc = "once" /\ knowledgeItem # NullObject) =>
        LET tags == knowledgeItem.metadata.tags
            has(t) == \E i \in 1..Len(tags) : tags[i] = t
        IN /\ has(<< "c","o","m","p","l","e","x" >>) <=> analysis.complexity > 10
           /\ has(<< "s","i","m","p","l","e" >>) <=> analysis.complexity <= 3
           /\ ~(has(<< "c","o","m","p","l","e","x" >>) /\ has(<< "s","i","m","p","l","e" >>))
           /\ analysis.complexity \in 4..10 => ~has(<< "c","o","m","p","l","e","x" >>) /\ ~has(<< "s","i","m","p","l","e" >>)
           /\ \A i, j \in 1..Len(tags) : tags[i] = tags[j] => i = j

\* The lowest score that gives 'complex'.
C16_Witness ==
    /\ epc = "once"
    /\ knowledgeItem # NullObject
    /\ analysis.complexity = 11
    /\ \E i \in 1..Len(knowledgeItem.metadata.tags) :
           knowledgeItem.metadata.tags[i] = << "c","o","m","p","l","e","x" >>
    /\ \A i \in 1..Len(knowledgeItem.metadata.tags) :
           knowledgeItem.metadata.tags[i] # << "s","i","m","p","l","e" >>

\* A tag pushed twice ('typescript' from the language and from a dependency).
C16_WitnessRepeated ==
    /\ epc = "once"
    /\ knowledgeItem # NullObject
    /\ Len(PushedTags(fileInfo.filePath, analysis)) > Len(knowledgeItem.metadata.tags)

\* The scores next to the two thresholds: 3 and 10.
C16_WitnessBoundaries ==
    /\ epc = "once"
    /\ analysis # NullObject
    /\ analysis.complexity \in { 3, 10 }

\* The names of the frameworks in the order of their priority.
FrameworkOrder == << << "R","e","a","c","t" >>, << "V","u","e" >>, << "A","n","g","u","l","a","r" >>, << "E","x","p","r","e","s","s" >>, << "N","e","x","t",".","j","s" >>, << "D","j","a","n","g","o" >>, << "F","l","a","s","k" >>, << "S","p","r","i","n","g" >> >>

\* The frameworks, by their place in the table, one of whose signatures
\* matches the content when the case of letters is ignored.
Signalled(c) ==
    { f \in 1..Len(Frameworks) :
        \E p \in 1..Len(Frameworks[f].patterns) :
            RegExpTest(ToLower(Frameworks[f].patterns[p]), ToLower(c)) }

\* C17: the detected framework is the first one of React, Vue, Angular,
\* Express, Next.js, Django, Flask, Spring that has a signature matching the
\* content, the case of letters ignored; when none has, no framework is
\* detected.
C17_FirstFrameworkWins ==
    (epc = "once" /\ analysis # NullObject) =>
        LET hit == Signalled(fileInfo.content)
        IN /\ hit = {} => analysis.framework = Undefined
           /\ hit # {} =>
                  analysis.framework = FrameworkOrder[CHOOSE f \in hit : \A g \in hit : f <= g]

C17_Witness ==
    /\ epc = "once"
    /\ analysis # NullObject
    /\ fileInfo.content = << "c","r","e","a","t","e","A","p","p","(","u","s","e","S","t","a","t","e",")" >>
    /\ Signalled(fileInfo.content) = { 1, 2 }
    /\ analysis.framework = << "R","e","a","c","t" >>

\* A signature in lower case found in a content in upper case.
C17_WitnessIgnoreCase ==
    /\ epc = "once"
    /\ analysis # NullObject
    /\ fileInfo.content = << "I","M","P","O","R","T"," ","V","U","E" >>
    /\ analysis.framework = << "V","u","e" >>

\* The end of the longest run of characters of set cs that starts at i of s
\* (i - 1 when s[i] is not in cs).
RunEnd(s, i, cs) ==
    LET stops == { j \in i..Len(s) : s[j] \notin cs }
    IN IF stops = {} THEN Len(s) ELSE (CHOOSE j \in stops : \A k \in stops : j <= k) - 1

\* The class names of the text from position from on, read off the text: the
\* word "class", white space, and the name up to its last word character;
\* the search goes on after the name.
RECURSIVE ClassNamesFrom(_, _)
ClassNamesFrom(c, from) ==
    LET kw == << "c","l","a","s","s" >>
        at == { i \in from..Len(c) :
                  /\ OccursAt(kw, c, i)
                  /\ RunEnd(c, i + 5, Whitespace) >= i + 5
                  /\ RunEnd(c, RunEnd(c, i + 5, Whitespace) + 1, WordChars)
                         > RunEnd(c, i + 5, Whitespace) }
    IN IF at = {} THEN << >>
       ELSE LET i == CHOOSE a \in at : \A b \in at : a <= b
                first == RunEnd(c, i + 5, Whitespace) + 1
                last == RunEnd(c, first, WordChars)
            IN << SubSeq(c, first, last) >> \o ClassNamesFrom(c, last + 1)

\* C18: the class list is the names after the occurrences of "class" in their
\* order, followed by the same names once more, and the main class is the
\* first of them.
C18_ClassesTwice ==
    (epc = "once" /\ analysis # NullObject) =>
        LET names == ClassNamesFrom(fileInfo.content, 1)
        IN /\ analysis.classes = names \o names
           /\ Len(analysis.classes) = 2 * Len(names)
           /\ names # << >> => analysis.mainClass = names[1]
           /\ names = << >> => analysis.mainClass = Null

C18_Witness ==
    /\ epc = "once"
    /\ analysis # NullObject
    /\ fileInfo.content = << "c","l","a","s","s"," ","F","o","o"," ","{","\n","e","x","p","o","r","t"," ","d","e","f","a","u","l","t"," ","c","l","a","s","s"," ","A" >>
    /\ analysis.classes = << << "F","o","o" >>, << "A" >>, << "F","o","o" >>, << "A" >> >>
    /\ analysis.mainClass = << "F","o","o" >>

----------------------------------------------------------------------------
(* Claims about the webhook endpoint *)

\* With a secret configured, the event of a request reaches
\* GitHubWatcher.handleWebhookEvent only when its signature is the one
\* computed from the secret and the body.
DispatchOnlyWhenSigned ==
    (webhookSecret # << >> /\ watcherEvents # << >>) =>
        request.signature = Sign(webhookSecret, request.raw)

\* C19: with a secret configured, handleWebhookEvent is called only for a
\* request whose x-hub-signature-256 header is 'sha256=' and the HMAC of the
\* body, and a request without the header or with another signature is
\* answered 401 and does not reach the watcher.
C19_UnsignedRejected ==
    webhookSecret # << >> =>
        /\ watcherEvents # << >> => request.signature = Sign(webhookSecret, request.raw)
        /\ (wpc = "done" /\ request.signature # Sign(webhookSecret, request.raw)) =>
               (response = 401 /\ watcherEvents = << >>)

----------------------------------------------------------------------------
(* Claims about initializeModel *)

\* The names whose test call answers.
Working == { i \in 1..Len(Models) : testOutcomes[i] = "ok" }

\* When a test call answers, the model kept is the first one in the order of
\* preference whose test call answered, and there is no error.
FirstWorkingModelKept ==
    (mpc = "done" /\ Working # {}) =>
        /\ model = Models[CHOOSE i \in Working : \A j \in Working : i <= j]
        /\ initError = ""

\* C20: when the test call fails for every model name, initializeModel ends
\* with the error 'No Gemini model available. Check your API key.' and no
\* model is kept; when a test call answers, the model kept is the first one
\* in the order of preference whose test call answered.
C20_NoModelIsAnError ==
    mpc = "done" =>
        /\ Working = {} => (initError = NoModelError /\ model = Undefined)
        /\ Working # {} =>
               model = Models[CHOOSE i \in Working : \A j \in Working : i <= j]

----------------------------------------------------------------------------
(* Claims about ids *)

\* C24: two files that differ in repository or in path get different ids.
C24_DistinctIds ==
    (/\ epc = "twice"
     /\ knowledgeItem # NullObject
     /\ knowledgeItem2 # NullObject
     /\ << fileInfo.repository, fileInfo.filePath >> # << fileInfo2.repository, fileInfo2.filePath >>)
        => knowledgeItem.id # knowledgeItem2.id

----------------------------------------------------------------------------
(* Claims about the store operations, continued *)

\* C27: after addKnowledge(item) has returned, no record with originalId =
\* item.id has a chunkIndex at or beyond the number of chunks of item.
C27_NoStaleChunks ==
    \A p \in Procs :
        (calls[p].op = "add" /\ calls[p].pc = "done")
            => \A k \in StoredFor(calls[p].item.id) :
                   store[k].chunkIndex < Len(splitContent(calls[p].item.content))

----------------------------------------------------------------------------
(* Claims about splitContent, continued *)

\* C28: for a content with a character that is not whitespace, every
\* returned chunk is non-empty and equal to its own trim.
C28_NoBlankChunk ==
    (cpc = "done" /\ \E i \in 1..Len(content) : content[i] \notin Whitespace)
        => \A i \in 1..Len(result) : result[i] # << >> /\ result[i] = Trim(result[i])

----------------------------------------------------------------------------
(* Claims about eligibility with the default configuration *)

\* The extensions of the include list ('**/*.ext'), the directory names of
\* the exclude list ('**/name/**') and its file-name endings ('**/*.end').
IncludedExtensions ==
    { SubSeq(pat, 5, Len(pat)) :
        pat \in { q \in Range(DefaultIncludePatterns) : OccursAt(<< "*","*","/","*","." >>, q, 1) } }

ExcludedDirectories ==
    { SubSeq(pat, 4, Len(pat) - 3) :
        pat \in { q \in Range(DefaultExcludePatterns) : EndsWith(q, << "/","*","*" >>) } }

ExcludedEndings ==
    { SubSeq(pat, 5, Len(pat)) :
        pat \in { q \in Range(DefaultExcludePatterns) : OccursAt(<< "*","*","/","*","." >>, q, 1) } }

\* The directory segments of a path: all its segments but the last.
DirectorySegments(path) ==
    { SplitOn(path, "/")[k] : k \in 1..(Len(SplitOn(path, "/")) - 1) }

\* C30: with the default configuration a path with an included extension,
\* without an excluded directory among its segments (and without an excluded
\* file-name ending) is eligible, a path without '/' included.
C30_IncludedPathsEligible ==
    (/\ op = "shouldProcessFile"
     /\ config = DefaultConfig
     /\ Extname(filePath) \in IncludedExtensions
     /\ DirectorySegments(filePath) \cap ExcludedDirectories = {}
     /\ \A e \in ExcludedEndings : ~EndsWith(filePath, e))
        => eligible = TRUE

----------------------------------------------------------------------------
(* Claims about the GitHubWatcher *)

\* C21: no addKnowledge, updateKnowledge or removeKnowledge is made while a
\* push for a repository outside the watch list is processed: every call made
\* from a push event is for a repository of the watch list.
C21_UnwatchedPushIsSilent ==
    \A k \in 1..Len(engineCalls) :
        engineCalls[k].via = "push" => FindRepo(repos, engineCalls[k].call.repository) # 0

\* A push with an added, a modified and a removed file for a repository
\* outside the watch list has been processed to its end without any call.
C21_Witness ==
    /\ gpc = "idle"
    /\ jobCount = 1
    /\ job.kind = "push"
    /\ FindRepo(repos, job.full_name) = 0
    /\ Len(PushChanges(job.commits)) = 3
    /\ engineCalls = << >>

\* C29: no addKnowledge is made for a file that the excludePaths of the
\* watch list entry of its repository match, whatever the entry point.
C29_ExcludedNeverAdded ==
    \A k \in 1..Len(engineCalls) :
        (/\ engineCalls[k].call.method = "addKnowledge"
         /\ FindRepo(repos, engineCalls[k].call.repository) # 0)
            => ~shouldExcludeFile(engineCalls[k].call.filePath,
                                  repos[FindRepo(repos, engineCalls[k].call.repository)])

----------------------------------------------------------------------------
(* Claims about the application *)

\* C22: a startSystem, askQuestion, searchKnowledge or getSystemStats made
\* before any initialize() has completed throws a 'System not initialized'
\* error and uses no part of the system; a shutdown made then returns
\* without using any.
C22_GuardBeforeInitialize ==
    \A k \in 1..Len(appLog) :
        appLog[k].early =>
            /\ appLog[k].touched = {}
            /\ appLog[k].threw = (appLog[k].method # "shutdown")
            /\ appLog[k].threw => Includes(appLog[k].message, NotInitialized)

\* While an initialize() is awaiting the engine, a startSystem has thrown
\* and a shutdown has returned.
C22_Witness ==
    /\ ipc = "engine"
    /\ initDone = 0
    /\ Len(appLog) = 2
    /\ appLog[1].method = "startSystem" /\ appLog[1].early /\ appLog[1].threw
    /\ appLog[2].method = "shutdown" /\ appLog[2].early /\ ~appLog[2].threw

\* The three other calls have thrown before initialize.
C22_WitnessQueries ==
    /\ initDone = 0
    /\ Len(appLog) = 2
    /\ appLog[1].method = "askQuestion" /\ appLog[1].threw
    /\ appLog[2].method \in {"searchKnowledge", "getSystemStats"} /\ appLog[2].threw

\* C26: during a start with real-time sync, addKnowledge is called at most
\* once for each local file.
C26_AddedOnce ==
    \A i, j \in 1..Len(ingested) :
        (/\ ingested[i].call.method = "addKnowledge"
         /\ ingested[j].call.method = "addKnowledge"
         /\ ingested[i].call.filePath = ingested[j].call.filePath)
            => i = j

----------------------------------------------------------------------------
(* Claims about concurrent event handlers *)

\* The handlers of an 'added' event and of a later 'removed' event for the
\* same file, both finished.
AddedThenRemoved(p, q) ==
    /\ p \in EarlierHandlers(q)
    /\ calls[p].action = "added"
    /\ calls[q].action = "removed"
    /\ calls[p].file = calls[q].file
    /\ calls[p].pc = "done"
    /\ calls[q].pc = "done"

\* C23: the id the 'removed' handler passes to removeKnowledge equals the id of the item the 'added' handler stored, and after an 'added' event followed by a 'removed' event for the same file no chunk with that originalId remains in the store.
C23_RemovedLeavesNoChunk ==
    \A p, q \in Handlers :
        AddedThenRemoved(p, q) =>
            /\ calls[q].item.id = calls[p].item.id
            /\ StoredFor(calls[p].item.id) = {}

\* The records stored under id form one version: one record per index
\* 0..n-1, each with totalChunks = n.
SingleVersion(id) ==
    /\ { store[k].chunkIndex : k \in StoredFor(id) } = 0..(Cardinality(StoredFor(id)) - 1)
    /\ \A k \in StoredFor(id) : store[k].totalChunks = Cardinality(StoredFor(id))

\* C25: when two 'modified' events for the same file are handled concurrently, then after both handlers finished the chunks stored under the file's id all belong to one version: one chunk per index 0..n-1 with the same totalChunks on each.
C25_ConcurrentUpdatesLeaveOneVersion ==
    \A p, q \in Handlers :
        (/\ p # q
         /\ calls[p].action = "modified"
         /\ calls[q].action = "modified"
         /\ calls[p].file = calls[q].file
         /\ calls[p].pc = "done"
         /\ calls[q].pc = "done") => SingleVersion(calls[p].item.id)

====
